---- MODULE Spec2Model ----
(***************************************************************************)
(* FIBProcessor of pvr.rtlradio (src/src/dsp_dab_OLD/fib-processor.cpp):   *)
(* the service debounce filter of FIG0/2, the binding of service           *)
(* components, the sub channel table and the dropService cascade.          *)
(*                                                                         *)
(* One action is one handler call: HandleFIG0Extension2 for one service    *)
(* entry of a FIG0/2, HandleFIG0Extension1 for one sub channel record of a *)
(* FIG0/1, clearEnsemble, and the passing of wall-clock time.              *)
(***************************************************************************)
EXTENDS Integers, Sequences, FiniteSets, TLC

\* ------------------------------------------------------------------ bounds
\* whole seconds the clock is followed past the last decay pass
MaxElapsed == 2

\* ------------------------------------------------------- program constants
\* subChannels.resize(64)
NumSubChannels == 64
\* sentinel id of a sub channel slot that is not in use
InvalidSubChId == -1
\* saturation value of a service repeat counter
MaxRepeatCount == 4
\* counter value from which a service is considered
ConfirmCount == 2

\* service ids carried by the FIG0/2 entries fed to the model; 0 is also the
\* value of a repeat counter that has run out
SIds == {0, 1}
\* sub channel ids of the sub channels and components that are followed
SubChIds == {0, 1}

\* transport mode ids of FIG0/2 (2 is reserved)
TMidAudio == 0
TMidStream == 1
TMidReserved == 2
TMidPacket == 3

\* ------------------------------------------------------------------- state
VARIABLES
  services,           \* std::vector<Service>: sequence of service records
  components,         \* std::vector<ServiceComponent>
  subChannels,        \* std::vector<Subchannel>, 64 slots
  serviceRepeatCount, \* std::unordered_map<uint32_t, uint8_t>
  elapsed,            \* steady_clock::now() - timeLastServiceDecrement, in seconds
  emitted,            \* notifications the last handler call sent to the radio interface
  lastOp,             \* the last handler call and what it did
  hist,               \* per service id: the sightings and decay passes so far
  ensembleId,         \* uint16_t ensembleId
  ensembleEcc,        \* uint8_t ensembleEcc
  ensembleLabel,      \* DabLabel ensembleLabel
  timeLastFCT0Frame,  \* the call that last set timeLastFCT0Frame to now()
  dateTime,           \* dab_date_time dateTime: the local time offset of FIG0/9
  timeOffsetReceived, \* bool timeOffsetReceived
  call                \* the locals of a processFIB call that is followed loop by loop

\* the members that FIG0/2, FIG0/1 and dropService neither read nor write
ensembleVars == <<ensembleId, ensembleEcc, ensembleLabel, timeLastFCT0Frame,
                  dateTime, timeOffsetReceived>>

vars == <<services, components, subChannels, serviceRepeatCount, elapsed,
          emitted, lastOp, hist, ensembleId, ensembleEcc, ensembleLabel,
          timeLastFCT0Frame, dateTime, timeOffsetReceived, call>>

\* ------------------------------------------------------------ data helpers
Range(s) == {s[i] : i \in DOMAIN s}

Min(a, b) == IF a < b THEN a ELSE b

\* a default constructed DabLabel
DefaultLabel ==
  [fig1_label |-> <<>>, fig1_flag |-> 0, charset |-> -1,
   toggle_flag |-> -1, segments |-> <<>>, segment_count |-> 0,
   extended_label_charset |-> "Undefined", fig2_rfu |-> 0]

\* Service(SId)
NewService(SId) == [serviceId |-> SId, serviceLabel |-> DefaultLabel]

\* a default constructed Subchannel
DefaultSubchannel ==
  [subChId |-> InvalidSubChId, startAddr |-> 0, language |-> 0, fecScheme |-> 0]

ServiceIds(svcs) == {svcs[i].serviceId : i \in DOMAIN svcs}

\* findServiceId(serviceId) != nullptr
findServiceId(svcs, serviceId) == \E i \in DOMAIN svcs : svcs[i].serviceId = serviceId

\* the part of the processor that the FIG0/2 handler works on
Store == [services |-> services, components |-> components,
          subChannels |-> subChannels, serviceRepeatCount |-> serviceRepeatCount,
          emitted |-> <<>>, removed |-> {}, orphaned |-> {}]

\* -------------------------------------------------------------- dropService
\* dropService that leaves the sub channel table alone
dropService_KeepSubChannels(st, SId) ==
  [st EXCEPT !.services = SelectSeq(st.services, LAMBDA s : s.serviceId # SId),
             !.components = SelectSeq(st.components, LAMBDA c : c.SId # SId),
             !.removed = @ \cup {c \in Range(st.components) : c.SId = SId}]

\* dropService that marks every sub channel of an erased component as not in
\* use, whether or not a remaining component refers to it
dropService_OrphanShared(st, SId) ==
  LET gone == {c \in Range(st.components) : c.SId = SId}
      drop(sub) == /\ sub.subChId # InvalidSubChId
                   /\ \E c \in gone : c.subchannelId = sub.subChId
  IN [st EXCEPT !.services = SelectSeq(st.services, LAMBDA s : s.serviceId # SId),
                !.components = SelectSeq(st.components, LAMBDA c : c.SId # SId),
                !.subChannels = [i \in DOMAIN st.subChannels |->
                                   IF drop(st.subChannels[i])
                                   THEN [st.subChannels[i] EXCEPT !.subChId = InvalidSubChId]
                                   ELSE st.subChannels[i]],
                !.removed = @ \cup gone,
                !.orphaned = @ \cup {i \in DOMAIN st.subChannels : drop(st.subChannels[i])}]

\* dropService that erases the slot of an orphaned sub channel from the table
dropService_EraseOrphaned(st, SId) ==
  LET svcs  == SelectSeq(st.services, LAMBDA s : s.serviceId # SId)
      gone  == {c \in Range(st.components) : c.SId = SId}
      comps == SelectSeq(st.components, LAMBDA c : c.SId # SId)
      drop(sub) == /\ sub.subChId # InvalidSubChId
                   /\ ~ \E c \in Range(comps) : c.subchannelId = sub.subChId
      kept  == {i \in DOMAIN st.subChannels : ~ drop(st.subChannels[i])}
  IN [st EXCEPT !.services = svcs,
                !.components = comps,
                !.subChannels = [i \in kept |-> st.subChannels[i]],
                !.removed = @ \cup gone,
                !.orphaned = @ \cup {i \in DOMAIN st.subChannels : drop(st.subChannels[i])}]

\* dropService(SId): erase the service, erase its components, then mark every
\* sub channel that no remaining component refers to as not in use
dropService(st, SId) ==
  LET svcs  == SelectSeq(st.services, LAMBDA s : s.serviceId # SId)
      gone  == {c \in Range(st.components) : c.SId = SId}
      comps == SelectSeq(st.components, LAMBDA c : c.SId # SId)
      drop(sub) == /\ sub.subChId # InvalidSubChId
                   /\ ~ \E c \in Range(comps) : c.subchannelId = sub.subChId
      subs  == [i \in DOMAIN st.subChannels |->
                  IF drop(st.subChannels[i])
                  THEN [st.subChannels[i] EXCEPT !.subChId = InvalidSubChId]
                  ELSE st.subChannels[i]]
  IN [st EXCEPT !.services = svcs,
                !.components = comps,
                !.subChannels = subs,
                !.removed = @ \cup gone,
                !.orphaned = @ \cup {i \in DOMAIN st.subChannels : drop(st.subChannels[i])}]

\* ------------------------------------------------------ the debounce filter
\* the argument the decay loop hands to dropService for the map entry
\* (first, second) it is about to erase: dropService(it->second)
DecayDropArgument(first, second) == second

\* the map without the key `first`
EraseEntry(map, first) == [k \in (DOMAIN map) \ {first} |-> map[k]]

\* a decay loop that erases an entry in the pass that decrements it to zero
DecayEntry_EraseWhenReachingZero(st, first) ==
  LET second == st.serviceRepeatCount[first]
  IN IF second > 1
     THEN [st EXCEPT !.serviceRepeatCount[first] = second - 1]
     ELSE LET d == dropService(st, DecayDropArgument(first, 0))
          IN [d EXCEPT !.serviceRepeatCount = EraseEntry(st.serviceRepeatCount, first)]

\* one iteration of the decay loop, on the map entry with key `first`
DecayEntry(st, first) ==
  LET second == st.serviceRepeatCount[first]
  IN IF second > 0
     THEN [st EXCEPT !.serviceRepeatCount[first] = second - 1]
     ELSE LET d == dropService(st, DecayDropArgument(first, second))
          IN [d EXCEPT !.serviceRepeatCount = EraseEntry(st.serviceRepeatCount, first)]

\* the decay loop over the entries `todo` of serviceRepeatCount
RECURSIVE DecayLoop(_, _)
DecayLoop(st, todo) ==
  IF todo = {} THEN st
  ELSE LET first == CHOOSE k \in todo : TRUE
       IN DecayLoop(DecayEntry(st, first), todo \ {first})

\* the decay pass: every entry of the map is visited once
DecayPass(st) == DecayLoop(st, DOMAIN st.serviceRepeatCount)

\* serviceRepeatCount[SId], which inserts a zero for a key that is absent
RepeatCountAt(map, SId) == IF SId \in DOMAIN map THEN map[SId] ELSE 0

\* the map with the value of the key SId set, the key inserted when absent
SetRepeatCount(map, SId, value) ==
  [k \in (DOMAIN map) \cup {SId} |-> IF k = SId THEN value ELSE map[k]]

\* an increment that does not saturate
IncrementRepeatCount_Unbounded(st, SId) ==
  [st EXCEPT !.serviceRepeatCount =
     SetRepeatCount(@, SId, RepeatCountAt(st.serviceRepeatCount, SId) + 1)]

\* if (serviceRepeatCount[SId] < 4) serviceRepeatCount[SId]++
IncrementRepeatCount(st, SId) ==
  LET old == RepeatCountAt(st.serviceRepeatCount, SId)
      new == IF old < MaxRepeatCount THEN old + 1 ELSE old
  IN [st EXCEPT !.serviceRepeatCount = SetRepeatCount(@, SId, new)]

\* a confirmation without the lookup of the service
ConfirmService_NoLookup(st, SId) ==
  IF RepeatCountAt(st.serviceRepeatCount, SId) >= ConfirmCount
  THEN [st EXCEPT !.services = Append(@, NewService(SId)),
                  !.emitted = Append(@, [kind |-> "onServiceDetected", id |-> SId])]
  ELSE st

\* a confirmation at the first sighting
ConfirmService_AtFirstSighting(st, SId) ==
  IF /\ ~ findServiceId(st.services, SId)
     /\ RepeatCountAt(st.serviceRepeatCount, SId) >= 1
  THEN [st EXCEPT !.services = Append(@, NewService(SId)),
                  !.emitted = Append(@, [kind |-> "onServiceDetected", id |-> SId])]
  ELSE st

\* if (findServiceId(SId) == nullptr and serviceRepeatCount[SId] >= 2)
\*   { services.emplace_back(SId); onServiceDetected(SId); }
ConfirmService(st, SId) ==
  IF /\ ~ findServiceId(st.services, SId)
     /\ RepeatCountAt(st.serviceRepeatCount, SId) >= ConfirmCount
  THEN [st EXCEPT !.services = Append(@, NewService(SId)),
                  !.emitted = Append(@, [kind |-> "onServiceDetected", id |-> SId])]
  ELSE st

\* a debounce step that increments and confirms before the decay pass
Debounce_DecayLast(st, SId, due) ==
  LET seen == ConfirmService(IncrementRepeatCount(st, SId), SId)
  IN IF due THEN DecayPass(seen) ELSE seen

\* the debounce part of HandleFIG0Extension2: the decay pass when it is due,
\* then the increment of the sighted id, then the confirmation
Debounce(st, SId, due) ==
  ConfirmService(IncrementRepeatCount(IF due THEN DecayPass(st) ELSE st, SId), SId)

\* ------------------------------------------------- binding of the components
\* values an int16_t member that no constructor or bind function writes can
\* hold: one that is no index of the table, and one that is
IndeterminateSubChIds == {InvalidSubChId, 0}

\* packet service component ids carried by the FIG0/2 entries fed to the model
SCIds == {7}

\* placeholder of the member SCId of a component that is not a packet
\* component: findPacketComponent skips those before it reads SCId
NoSCId == -1

\* primary / secondary flags carried by the FIG0/2 entries fed to the model
PSFlags == {0, 1}

\* audio (ASCTy) and data (DSCTy) service component types carried by the
\* FIG0/2 entries fed to the model
Tys == {0, 63}

\* placeholder of the type of a packet component, whose DSCTy no bind
\* function writes: a FIG0/3 assigns it
NoTy == -1

\* the component descriptions a FIG0/2 service entry can carry: the transport
\* mode, SubChId (audio, stream data) or SCId (packet data), the PS flag, the
\* type ASCTy (audio) or DSCTy (stream data), and for packet data the value
\* the unwritten member subchannelId happens to hold
ComponentDescriptions ==
       [TMid : {TMidAudio, TMidStream}, SubChId : SubChIds, SCId : {NoSCId},
        PS_flag : PSFlags, Ty : Tys]
  \cup [TMid : {TMidPacket}, SubChId : IndeterminateSubChIds, SCId : SCIds,
        PS_flag : PSFlags, Ty : {NoTy}]
  \cup [TMid : {TMidReserved}, SubChId : {InvalidSubChId}, SCId : {NoSCId},
        PS_flag : PSFlags, Ty : {NoTy}]

\* a lookup that never finds the component: a component number that is
\* announced again is appended again
hasComponent_FindsNothing(comps, SId, compnr) == FALSE

\* std::find_if over components for (SId, componentNr) finds an element
hasComponent(comps, SId, compnr) ==
  \E c \in Range(comps) : c.SId = SId /\ c.componentNr = compnr

\* a bind function without the lookup of the service
bindSubchannelService_NoServiceCheck(st, TMid, SId, compnr, subChId, ps_flag, Ty) ==
  IF hasComponent(st.components, SId, compnr) THEN st
  ELSE [st EXCEPT !.components =
          Append(@, [TMid |-> TMid, SId |-> SId, componentNr |-> compnr,
                     subchannelId |-> subChId, SCId |-> NoSCId,
                     PS_flag |-> ps_flag, Ty |-> Ty,
                     componentLabel |-> DefaultLabel])]

\* bindAudioService / bindDataStreamService: TMid, SId, componentNr,
\* subchannelId, PS_flag and the type (ASCTy or DSCTy) are written
bindSubchannelService(st, TMid, SId, compnr, subChId, ps_flag, Ty) ==
  IF ~ findServiceId(st.services, SId) THEN st
  ELSE IF hasComponent(st.components, SId, compnr) THEN st
  ELSE [st EXCEPT !.components =
          Append(@, [TMid |-> TMid, SId |-> SId, componentNr |-> compnr,
                     subchannelId |-> subChId, SCId |-> NoSCId,
                     PS_flag |-> ps_flag, Ty |-> Ty,
                     componentLabel |-> DefaultLabel])]

\* bindPacketService: TMid, SId, componentNr, SCId and PS_flag are written,
\* and subchannelId is left as it is (`unwritten`) until a FIG0/3 assigns it
bindPacketService(st, TMid, SId, compnr, SCId, ps_flag, unwritten) ==
  IF ~ findServiceId(st.services, SId) THEN st
  ELSE IF hasComponent(st.components, SId, compnr) THEN st
  ELSE [st EXCEPT !.components =
          Append(@, [TMid |-> TMid, SId |-> SId, componentNr |-> compnr,
                     subchannelId |-> unwritten, SCId |-> SCId,
                     PS_flag |-> ps_flag, Ty |-> NoTy,
                     componentLabel |-> DefaultLabel])]

\* the body of the component loop of HandleFIG0Extension2 for component i
\* (descs[i + 1] in the 1-based sequence)
bindComponent(st, SId, i, desc) ==
  IF desc.TMid = TMidAudio \/ desc.TMid = TMidStream
  THEN bindSubchannelService(st, desc.TMid, SId, i, desc.SubChId, desc.PS_flag, desc.Ty)
  ELSE IF desc.TMid = TMidPacket
  THEN bindPacketService(st, desc.TMid, SId, i, desc.SCId, desc.PS_flag, desc.SubChId)
  ELSE st

\* for (i = 0; i < numberofComponents; i++) ...
RECURSIVE bindComponents(_, _, _, _)
bindComponents(st, SId, descs, i) ==
  IF i >= Len(descs) THEN st
  ELSE bindComponents(bindComponent(st, SId, i, descs[i + 1]), SId, descs, i + 1)

\* a handler that binds the components of an entry only for a service that
\* was there before the entry
HandleFIG0Extension2_BindNextTime(st, SId, descs, due) ==
  IF findServiceId(st.services, SId)
  THEN bindComponents(Debounce(st, SId, due), SId, descs, 0)
  ELSE Debounce(st, SId, due)

\* HandleFIG0Extension2 on one service entry
HandleFIG0Extension2(st, SId, descs, due) ==
  bindComponents(Debounce(st, SId, due), SId, descs, 0)

\* ------------------------------------------------ the ensemble level members
\* ensemble ids carried by the FIG0/0, FIG1/0 and FIG2/0 fed to the model
EIds == {1, 2}

\* extended country codes carried by the FIG0/9 fed to the model
Eccs == {224}

\* the value of the member ensembleId before the first FIG0/0
DefaultEnsembleId == 0

\* the value of the member ensembleEcc before the first FIG0/9
DefaultEnsembleEcc == 0

\* a default constructed dab_date_time, as far as FIG0/9 writes it
DefaultDateTime ==
  [year |-> 0, month |-> 0, day |-> 0, hour |-> 0, minutes |-> 0, seconds |-> 0,
   hourOffset |-> 0, minuteOffset |-> 0]

\* the ensemble level members, as the handlers of FIG0/0, FIG0/9, FIG1 and
\* FIG2 work on them; threw: a std::runtime_error left the handler
EnsembleStore ==
  [ensembleId |-> ensembleId, ensembleEcc |-> ensembleEcc,
   ensembleLabel |-> ensembleLabel, timeLastFCT0Frame |-> timeLastFCT0Frame,
   dateTime |-> dateTime, timeOffsetReceived |-> timeOffsetReceived,
   emitted |-> <<>>, threw |-> FALSE]

NewEnsemble(eId) == [kind |-> "onNewEnsemble", id |-> eId]

\* FIG0/0 that stores the id without comparing it, and notifies every time
DecodeFIG0Extension0_AlwaysNotify(es, eId, lowpart) ==
  LET seen == [es EXCEPT !.ensembleId = eId,
                         !.emitted = Append(@, NewEnsemble(eId))]
  IN IF lowpart = 0 THEN [seen EXCEPT !.timeLastFCT0Frame = "FIG0/0"] ELSE seen

\* FIG0Extension0: eId is the 16 bit ensemble id, lowpart the CIF count modulo
\* 250; the change flag and the occurrence change are logged only
DecodeFIG0Extension0(es, eId, lowpart) ==
  LET seen == IF es.ensembleId # eId
              THEN [es EXCEPT !.ensembleId = eId,
                              !.emitted = Append(@, NewEnsemble(eId))]
              ELSE es
  IN IF lowpart = 0 THEN [seen EXCEPT !.timeLastFCT0Frame = "FIG0/0"] ELSE seen

\* FIG0Extension9: the sign bit and the four bits read as the hour offset,
\* the half hour bit, and the extended country code
DecodeFIG0Extension9(es, sign, hours, half, ecc) ==
  [es EXCEPT !.dateTime = [@ EXCEPT !.hourOffset = IF sign = 1 THEN -1 * hours ELSE hours,
                                    !.minuteOffset = IF half = 1 THEN 30 ELSE 0],
             !.timeOffsetReceived = TRUE,
             !.ensembleEcc = ecc]

\* the greatest value of the 17 bits of the Modified Julian Date
MaxMJD == 131071

\* a conversion that takes the Julian day of mjd to be mjd + 2400000
DateOfMJD_DayBefore(mjd) ==
  LET J  == mjd + 2400000
      j  == J + 32044
      g  == j \div 146097
      dg == j % 146097
      c  == (((dg \div 36524) + 1) * 3) \div 4
      dc == dg - c * 36524
      b  == dc \div 1461
      db == dc % 1461
      a  == (((db \div 365) + 1) * 3) \div 4
      da == db - a * 365
      y  == g * 400 + c * 100 + b * 4 + a
      m  == ((da * 5 + 308) \div 153) - 2
      d  == da - (((m + 4) * 153) \div 5) + 122
  IN [year  |-> y - 4800 + ((m + 2) \div 12),
      month |-> ((m + 2) % 12) + 1,
      day   |-> d + 1]

\* a conversion without the rule of the centuries: every fourth year is a
\* leap year, counted from 1 January 2000
DateOfMJD_EveryFourthYear(mjd) ==
  LET j  == mjd + 2400001 + 32044 + 15
      b  == j \div 1461
      db == j % 1461
      a  == (((db \div 365) + 1) * 3) \div 4
      da == db - a * 365
      y  == b * 4 + a
      m  == ((da * 5 + 308) \div 153) - 2
      d  == da - (((m + 4) * 153) \div 5) + 122
  IN [year  |-> y - 4800 + ((m + 2) \div 12),
      month |-> ((m + 2) % 12) + 1,
      day   |-> d + 1]

\* FIG0Extension10: the conversion of the Modified Julian Date mjd to year,
\* month and day, in the integer arithmetic of the handler
DateOfMJD(mjd) ==
  LET J  == mjd + 2400001
      j  == J + 32044
      g  == j \div 146097
      dg == j % 146097
      c  == (((dg \div 36524) + 1) * 3) \div 4
      dc == dg - c * 36524
      b  == dc \div 1461
      db == dc % 1461
      a  == (((db \div 365) + 1) * 3) \div 4
      da == db - a * 365
      y  == g * 400 + c * 100 + b * 4 + a
      m  == ((da * 5 + 308) \div 153) - 2
      d  == da - (((m + 4) * 153) \div 5) + 122
  IN [year  |-> y - 4800 + ((m + 2) \div 12),
      month |-> ((m + 2) % 12) + 1,
      day   |-> d + 1]

DateTimeUpdate(dt) == [kind |-> "onDateTimeUpdate", dateTime |-> dt]

\* FIG0Extension10 that sends the date and time whether or not a FIG0/9 has
\* been handled
DecodeFIG0Extension10_AlwaysSends(es, mjd, utc, hour, minutes, seconds) ==
  LET date == DateOfMJD(mjd)
      dt == [es.dateTime EXCEPT
               !.year = date.year, !.month = date.month, !.day = date.day,
               !.hour = hour, !.minutes = minutes,
               !.seconds = IF utc = 1 THEN seconds
                           ELSE IF minutes # es.dateTime.minutes THEN 0 ELSE @]
  IN [es EXCEPT !.dateTime = dt, !.emitted = Append(@, DateTimeUpdate(dt))]

\* FIG0Extension10 that keeps the seconds when the minute changes
DecodeFIG0Extension10_KeepsSeconds(es, mjd, utc, hour, minutes, seconds) ==
  LET date == DateOfMJD(mjd)
      dt == [es.dateTime EXCEPT
               !.year = date.year, !.month = date.month, !.day = date.day,
               !.hour = hour, !.minutes = minutes,
               !.seconds = IF utc = 1 THEN seconds ELSE @]
  IN IF es.timeOffsetReceived
     THEN [es EXCEPT !.dateTime = dt, !.emitted = Append(@, DateTimeUpdate(dt))]
     ELSE [es EXCEPT !.dateTime = dt]

\* FIG0Extension10: mjd the 17 bits of the date, utc the bit fig[offset + 20]
\* that says the seconds are there, hour, minutes and seconds the 5, 6 and 6
\* bits of the time
DecodeFIG0Extension10(es, mjd, utc, hour, minutes, seconds) ==
  LET date == DateOfMJD(mjd)
      reset == IF minutes # es.dateTime.minutes
               THEN [es.dateTime EXCEPT !.seconds = 0]
               ELSE es.dateTime
      dt == [reset EXCEPT
               !.year = date.year, !.month = date.month, !.day = date.day,
               !.hour = hour, !.minutes = minutes,
               !.seconds = IF utc = 1 THEN seconds ELSE @]
  IN IF es.timeOffsetReceived
     THEN [es EXCEPT !.dateTime = dt, !.emitted = Append(@, DateTimeUpdate(dt))]
     ELSE [es EXCEPT !.dateTime = dt]

\* the std::string that is assigned from the char array label[17], whose
\* last element is 0: the characters before the first 0
CString(chars) ==
  LET nul == {i \in DOMAIN chars : chars[i] = 0}
  IN IF nul = {} THEN chars
     ELSE SubSeq(chars, 1, (CHOOSE i \in nul : \A j \in nul : i <= j) - 1)

\* DabLabel::setCharset(charset_id): the code of the character set is stored
setCharset(label, charset_id) == [label EXCEPT !.charset = charset_id]

\* a FIG1 that is stored only in a label that has no text yet
SetFig1_OnlyIfUnset(label, charSet, chars, flag) ==
  IF label.fig1_label = <<>>
  THEN setCharset([label EXCEPT !.fig1_flag = flag, !.fig1_label = CString(chars)], charSet)
  ELSE label

\* the three assignments of process_FIG1 to the label of its target: the
\* character flag field, the 16 characters and the character set
SetFig1(label, charSet, chars, flag) ==
  setCharset([label EXCEPT !.fig1_flag = flag, !.fig1_label = CString(chars)], charSet)

\* process_FIG1, extension 0 (ensemble label): oe is the other-ensemble bit,
\* label the 16 characters, flag the character flag field
DecodeFIG1Extension0(es, oe, charSet, EId, label, flag) ==
  IF oe = 1 THEN es
  ELSE IF EId = es.ensembleId
  THEN LET l == SetFig1(es.ensembleLabel, charSet, label, flag)
       IN [es EXCEPT !.ensembleLabel = l,
                     !.emitted = Append(@, [kind |-> "onSetEnsembleLabel", label |-> l])]
  ELSE es

\* the bytes f[from], ..., f[Len(f) - 1] of the 0-based byte field f
BytesFrom(f, from) == SubSeq(f, from + 1, Len(f))

\* a handler that stores the new toggle flag and keeps the buffered segments
handle_ext_label_data_field_KeepSegments(f, toggle_flag, segment_index, rfu, label) ==
  LET l1 == IF label.toggle_flag # toggle_flag
            THEN [label EXCEPT !.extended_label_charset = "Undefined",
                               !.toggle_flag = toggle_flag]
            ELSE label
      encoding_flag == f[1] \div 128
      segment_count == (f[1] % 128) \div 16
      l2 == [l1 EXCEPT !.segment_count = segment_count + 1,
                       !.extended_label_charset =
                          IF encoding_flag = 1 THEN "UnicodeUcs2" ELSE "UnicodeUtf8"]
      header == IF rfu = 0 THEN 3 ELSE 1
      store(l, bytes) ==
        [l EXCEPT !.segments = [k \in (DOMAIN l.segments) \cup {segment_index} |->
                                  IF k = segment_index THEN bytes ELSE l.segments[k]]]
  IN IF segment_index = 0
     THEN IF Len(f) <= header
          THEN [label |-> l2, threw |-> TRUE]
          ELSE [label |-> store([l2 EXCEPT !.fig2_rfu = rfu], BytesFrom(f, header)),
                threw |-> FALSE]
     ELSE [label |-> store(l1, f), threw |-> FALSE]

\* a handler that buffers the segments in the order of their arrival: a
\* segment is stored behind the ones that are buffered
handle_ext_label_data_field_ByArrival(f, toggle_flag, segment_index, rfu, label) ==
  LET l1 == IF label.toggle_flag # toggle_flag
            THEN [label EXCEPT !.segments = <<>>,
                               !.extended_label_charset = "Undefined",
                               !.toggle_flag = toggle_flag]
            ELSE label
      encoding_flag == f[1] \div 128
      segment_count == (f[1] % 128) \div 16
      l2 == [l1 EXCEPT !.segment_count = segment_count + 1,
                       !.extended_label_charset =
                          IF encoding_flag = 1 THEN "UnicodeUcs2" ELSE "UnicodeUtf8"]
      header == IF rfu = 0 THEN 3 ELSE 1
      store(l, bytes) ==
        LET next == Cardinality(DOMAIN l.segments)
        IN [l EXCEPT !.segments = [k \in (DOMAIN l.segments) \cup {next} |->
                                     IF k = next THEN bytes ELSE l.segments[k]]]
  IN IF segment_index = 0
     THEN IF Len(f) <= header
          THEN [label |-> l2, threw |-> TRUE]
          ELSE [label |-> store([l2 EXCEPT !.fig2_rfu = rfu], BytesFrom(f, header)),
                threw |-> FALSE]
     ELSE [label |-> store(l1, f), threw |-> FALSE]

\* handle_ext_label_data_field: f is the data field (len_bytes = Len(f)
\* bytes); the result is the label and whether std::runtime_error was thrown
handle_ext_label_data_field(f, toggle_flag, segment_index, rfu, label) ==
  LET l1 == IF label.toggle_flag # toggle_flag
            THEN [label EXCEPT !.segments = <<>>,
                               !.extended_label_charset = "Undefined",
                               !.toggle_flag = toggle_flag]
            ELSE label
      encoding_flag == f[1] \div 128
      segment_count == (f[1] % 128) \div 16
      l2 == [l1 EXCEPT !.segment_count = segment_count + 1,
                       !.extended_label_charset =
                          IF encoding_flag = 1 THEN "UnicodeUcs2" ELSE "UnicodeUtf8"]
      header == IF rfu = 0 THEN 3 ELSE 1
      store(l, bytes) ==
        [l EXCEPT !.segments = [k \in (DOMAIN l.segments) \cup {segment_index} |->
                                  IF k = segment_index THEN bytes ELSE l.segments[k]]]
  IN IF segment_index = 0
     THEN IF Len(f) <= header
          THEN [label |-> l2, threw |-> TRUE]
          ELSE [label |-> store([l2 EXCEPT !.fig2_rfu = rfu], BytesFrom(f, header)),
                threw |-> FALSE]
     ELSE [label |-> store(l1, f), threw |-> FALSE]

\* length of the FIG data field header of a FIG2
FIG2HeaderLength == 1

\* length of the identifier field of a FIG2/0: the ensemble id
FIG2EnsembleIdLength == 2

\* process_FIG2, extension 0 (ensemble label): figlen is the 5 bit length of
\* the FIG, eid the identifier field, figdata the bytes after the identifier
DecodeFIG2Extension0(es, figlen, toggle_flag, segment_index, rfu, eid, figdata) ==
  IF figlen <= FIG2HeaderLength + FIG2EnsembleIdLength THEN es
  ELSE IF eid = es.ensembleId
  THEN LET r == handle_ext_label_data_field(figdata, toggle_flag, segment_index, rfu,
                                            es.ensembleLabel)
       IN [es EXCEPT !.ensembleLabel = r.label, !.threw = r.threw]
  ELSE es

\* ------------------------------------------------------------------ history
\* largest count of sightings and of decay passes the history tells apart
HistCap == 2

\* hist[s].n     sightings of s since the last clearEnsemble
\* hist[s].d     decay passes since the only sighting of s (0 unless n = 1)
\* hist[s].fresh the last sighting of s found s absent from serviceRepeatCount
\*               and no decay pass has run since that sighting
\* hist[s].detected  onServiceDetected(s) was sent since the last clearEnsemble
NoHistory == [s \in SIds |-> [n |-> 0, d |-> 0, fresh |-> FALSE, detected |-> FALSE]]

Detected(SId) == [kind |-> "onServiceDetected", id |-> SId]

HistoryAfterSighting(h, tracked, SId, due, sent) ==
  [s \in SIds |->
     IF s = SId
     THEN [n        |-> Min(h[s].n + 1, HistCap),
           d        |-> 0,
           fresh    |-> SId \notin tracked,
           detected |-> h[s].detected \/ Detected(s) \in Range(sent)]
     ELSE [n        |-> h[s].n,
           d        |-> IF due /\ h[s].n = 1 THEN Min(h[s].d + 1, HistCap) ELSE h[s].d,
           fresh    |-> h[s].fresh /\ ~ due,
           detected |-> h[s].detected \/ Detected(s) \in Range(sent)]]

\* lastOp.op       the handler
\* lastOp.sid      the service id (FIG0/2, dropService) or sub channel id it was for
\* lastOp.descs    the component descriptions of the FIG0/2 entry
\* lastOp.decay    the decay pass ran in the call
\* lastOp.removed  the sub channel ids of the components the call erased
\* lastOp.orphaned the slots the call marked as not in use
\* lastOp.threw    a std::runtime_error left the call
\* lastOp.fib      the FIB handed to processFIB
\* lastOp.decoded  the FIGs of the FIB, by position, that processFIB dispatched
\* lastOp.arg      the fields of the FIG the handler was called for
NoOp == [op |-> "none", sid |-> -1, descs |-> <<>>, decay |-> FALSE,
         removed |-> {}, orphaned |-> {}, threw |-> FALSE,
         fib |-> <<>>, decoded |-> <<>>, arg |-> <<>>]

\* the locals of processFIB and of the FIG0 extension handler it has called:
\* call.pc             "idle"    no call is followed
\*                     "fig"     at the head of the loop of processFIB
\*                     "records" at the head of the record loop of a handler
\*                     "done"    processFIB has returned
\* call.processedBytes processedBytes of processFIB
\* call.endMarker      the call returned from case 6 or case 7
\* call.threw          the call was left by the exception of process_FIG2
\* call.extension, call.Length, call.pd  the FIG0 that is being handled
\* call.used           the offset of the record loop (used, offset)
\* call.records        the records the loop has handled
\* and, where the threads that call the processor are followed:
\* call.owner          the thread that holds the mutex: "none", "decoder",
\*                     "reader"
\* call.decoder        where the thread that decodes is: "idle", "locked" (in
\*                     processFIB, before the FIG0/2 entry), "callback" (in
\*                     onServiceDetected), "query" (the observer has called
\*                     getService), "blocked" (in the lock of that query),
\*                     "debounced" (behind the debounce of the entry),
\*                     "bound" (behind its component loop), "clearing" (in
\*                     clearEnsemble), "cleared" (behind components.clear()),
\*                     "emptied" (behind the last statement of clearEnsemble)
\* call.entry          the FIG0/2 entry of the FIB that is decoded
\* call.reader         where the thread that queries is: "idle", "locked",
\*                     "copied"
\* call.snapshot       what the last query returned
\* call.answer         what the query of the observer returned, if it has
\* call.whole          the services and components as the last call of
\*                     processFIB or clearEnsemble that has returned left them
\* and, where the HD Radio stream is followed, the members of hdstream:
\* call.hd.queue      m_queue, the demux packets from the front to the back
\* call.hd.dts        m_dts
\* call.hd.hdaudio    m_hdaudio
\* call.hd.analogfallback  m_analogfallback
\* call.hd.ber, call.hd.mer  m_ber and m_mer
\* call.hd.reads      the packets demuxread has taken from the queue so far
\* and, where the database connection pool is followed, the members of
\* connectionpool and the threads that use it:
\* call.pool.connections  m_connections, every handle the pool has opened
\* call.pool.queue    m_queue, the idle handles from the front to the back
\* call.pool.owner    the thread that holds m_lock, or NoThread
\* call.pool.thread   per thread: pc, where it is ("idle", "acquiring" in
\*                    acquire behind the lock, "fronted" behind
\*                    m_queue.front(), "returning" at the return of acquire,
\*                    "releasing" in release behind the lock, "released"
\*                    behind the push); handle, the local or the argument
\*                    handle; holds, the handles it has acquired and not
\*                    yet given to release
NoCall == [pc |-> "idle", processedBytes |-> 0, endMarker |-> FALSE,
           threw |-> FALSE, extension |-> 0, Length |-> 0, pd |-> 0, used |-> 0, records |-> 0,
           owner |-> "none", decoder |-> "idle", entry |-> <<>>, reader |-> "idle",
           snapshot |-> <<>>, answer |-> <<>>,
           whole |-> [services |-> <<>>, components |-> [s \in SIds |-> <<>>]],
           hd |-> [queue |-> <<>>, dts |-> 0, hdaudio |-> FALSE,
                   analogfallback |-> FALSE, ber |-> 0, mer |-> 0, reads |-> 0],
           pool |-> [connections |-> <<>>, queue |-> <<>>, owner |-> 0, thread |-> <<>>]]

\* ------------------------------------------------------------------ actions
\* the constructor: the members are default constructed, then clearEnsemble()
Init ==
  /\ services = <<>>
  /\ components = <<>>
  /\ subChannels = [i \in 0..(NumSubChannels - 1) |-> DefaultSubchannel]
  /\ serviceRepeatCount = <<>>
  /\ elapsed = 0
  /\ emitted = <<>>
  /\ lastOp = [NoOp EXCEPT !.op = "clearEnsemble"]
  /\ hist = NoHistory
  /\ ensembleId = DefaultEnsembleId
  /\ ensembleEcc = DefaultEnsembleEcc
  /\ ensembleLabel = DefaultLabel
  /\ timeLastFCT0Frame = "clearEnsemble"
  /\ dateTime = DefaultDateTime
  /\ timeOffsetReceived = FALSE
  /\ call = NoCall

\* timeLastServiceDecrement + seconds(1) < now
DecayDue == elapsed > 1

\* a second passes on the steady clock
Tick ==
  /\ elapsed < MaxElapsed
  /\ elapsed' = elapsed + 1
  /\ UNCHANGED <<services, components, subChannels, serviceRepeatCount,
                 emitted, lastOp, hist>>
  /\ UNCHANGED ensembleVars
  /\ UNCHANGED call

\* processFIB meets a FIG0/2 service entry for SId with the components descs
FIG0Extension2(SId, descs) ==
  LET st == HandleFIG0Extension2(Store, SId, descs, DecayDue)
  IN /\ services' = st.services
     /\ components' = st.components
     /\ subChannels' = st.subChannels
     /\ serviceRepeatCount' = st.serviceRepeatCount
     /\ elapsed' = IF DecayDue THEN 0 ELSE elapsed
     /\ emitted' = st.emitted
     /\ lastOp' = [op |-> "FIG0/2", sid |-> SId, descs |-> descs, decay |-> DecayDue,
                   removed |-> {c.subchannelId : c \in st.removed},
                   orphaned |-> st.orphaned, threw |-> FALSE,
                   fib |-> <<>>, decoded |-> <<>>, arg |-> <<>>]
     /\ hist' = HistoryAfterSighting(hist, DOMAIN serviceRepeatCount, SId, DecayDue,
                                      st.emitted)
     /\ UNCHANGED ensembleVars
     /\ UNCHANGED call

\* a FIG0/1 handler that writes the record into the slot behind the one of
\* its id
HandleFIG0Extension1_NextSlot(subs, subChId, startAdr) ==
  [subs EXCEPT ![(subChId + 1) % NumSubChannels] =
                  [@ EXCEPT !.subChId = subChId, !.startAddr = startAdr]]

\* HandleFIG0Extension1 on one sub channel record
HandleFIG0Extension1(subs, subChId, startAdr) ==
  [subs EXCEPT ![subChId] = [@ EXCEPT !.subChId = subChId, !.startAddr = startAdr]]

\* start addresses carried by the FIG0/1 records fed to the model
StartAddrs == {54}

\* processFIB meets a FIG0/1 record
FIG0Extension1(subChId, startAdr) ==
  /\ subChannels' = HandleFIG0Extension1(subChannels, subChId, startAdr)
  /\ emitted' = <<>>
  /\ lastOp' = [NoOp EXCEPT !.op = "FIG0/1", !.sid = subChId]
  /\ UNCHANGED <<services, components, serviceRepeatCount, elapsed, hist>>
  /\ UNCHANGED ensembleVars
  /\ UNCHANGED call

\* subChannels.resize(64) on a table of n slots
ResizeSubChannels(subs) ==
  [i \in 0..(NumSubChannels - 1) |-> IF i \in DOMAIN subs THEN subs[i] ELSE DefaultSubchannel]

\* clearEnsemble without serviceRepeatCount.clear()
clearEnsemble_KeepRepeatCount ==
  /\ components' = <<>>
  /\ subChannels' = ResizeSubChannels(subChannels)
  /\ services' = <<>>
  /\ elapsed' = 0
  /\ emitted' = <<>>
  /\ lastOp' = [NoOp EXCEPT !.op = "clearEnsemble",
                            !.removed = {c.subchannelId : c \in Range(components)}]
  /\ hist' = NoHistory
  /\ timeLastFCT0Frame' = "clearEnsemble"
  /\ UNCHANGED <<serviceRepeatCount, ensembleId, ensembleEcc, ensembleLabel, dateTime,
                 timeOffsetReceived, call>>

\* clearEnsemble()
clearEnsemble ==
  /\ components' = <<>>
  /\ subChannels' = ResizeSubChannels(subChannels)
  /\ services' = <<>>
  /\ serviceRepeatCount' = <<>>
  /\ elapsed' = 0
  /\ emitted' = <<>>
  /\ lastOp' = [NoOp EXCEPT !.op = "clearEnsemble",
                            !.removed = {c.subchannelId : c \in Range(components)}]
  /\ hist' = NoHistory
  /\ timeLastFCT0Frame' = "clearEnsemble"
  /\ UNCHANGED <<ensembleId, ensembleEcc, ensembleLabel, dateTime, timeOffsetReceived>>
  /\ UNCHANGED call

\* a call of dropService(SId) on its own
DropService(SId) ==
  LET st == dropService(Store, SId)
  IN /\ services' = st.services
     /\ components' = st.components
     /\ subChannels' = st.subChannels
     /\ emitted' = <<>>
     /\ lastOp' = [op |-> "dropService", sid |-> SId, descs |-> <<>>, decay |-> FALSE,
                   removed |-> {c.subchannelId : c \in st.removed},
                   orphaned |-> st.orphaned, threw |-> FALSE,
                   fib |-> <<>>, decoded |-> <<>>, arg |-> <<>>]
     /\ UNCHANGED <<serviceRepeatCount, elapsed, hist>>
     /\ UNCHANGED ensembleVars
     /\ UNCHANGED call

AudioOn(subChId) ==
  [TMid |-> TMidAudio, SubChId |-> subChId, SCId |-> NoSCId, PS_flag |-> 1, Ty |-> 63]

\* the component lists of the FIG0/2 entries fed to the model: no component or
\* one audio component
AudioLists == {<<>>, <<AudioOn(0)>>}

\* The processor at work: time passes and decay passes run, FIG0/2 entries
\* arrive for the service ids SIds, FIG0/1 records define sub channel 0
Next ==
  \/ Tick
  \/ \E SId \in SIds, descs \in AudioLists : FIG0Extension2(SId, descs)
  \/ \E startAdr \in StartAddrs : FIG0Extension1(0, startAdr)
  \/ clearEnsemble

Spec == Init /\ [][Next]_vars

\* ------------------------------------------- dropService on any store it meets
\* largest number of components in the stores dropService is applied to
MaxStoredComponents == 2

\* the sequences over S of length 0..n
RECURSIVE SeqsUpTo(_, _)
SeqsUpTo(S, n) ==
  IF n = 0 THEN {<<>>}
  ELSE LET shorter == SeqsUpTo(S, n - 1)
       IN shorter \cup {Append(q, x) : q \in shorter, x \in S}

\* component numbers of the stored components
ComponentNrs == {0, 1}

\* the components the bind functions can have stored for the services ids;
\* dropService reads neither PS_flag nor the type
StoredComponents(ids) ==
       [TMid : {TMidAudio, TMidStream}, SId : ids, componentNr : ComponentNrs,
        subchannelId : SubChIds, SCId : {NoSCId}, PS_flag : {1}, Ty : {63},
        componentLabel : {DefaultLabel}]
  \cup [TMid : {TMidPacket}, SId : ids, componentNr : ComponentNrs,
        subchannelId : IndeterminateSubChIds, SCId : SCIds, PS_flag : {1}, Ty : {NoTy},
        componentLabel : {DefaultLabel}]

\* the bind functions store one component per (SId, componentNr)
UniqueComponents(comps) ==
  \A i, j \in DOMAIN comps :
    (comps[i].SId = comps[j].SId /\ comps[i].componentNr = comps[j].componentNr) => i = j

\* the service vectors FIG0/2 can have built: each id at most once, any order
ServiceVectors ==
  {svcs \in SeqsUpTo({NewService(s) : s \in SIds}, Cardinality(SIds)) :
     \A i, j \in DOMAIN svcs : svcs[i].serviceId = svcs[j].serviceId => i = j}

\* The stores that FIG0/2 entries seen four times each and FIG0/1 records
\* build: services in any order, their components in any order, each sub
\* channel of SubChIds defined or not
InitDrop ==
  /\ services \in ServiceVectors
  /\ components \in {comps \in SeqsUpTo(StoredComponents(ServiceIds(services)),
                                        MaxStoredComponents) : UniqueComponents(comps)}
  /\ \E defined \in SUBSET SubChIds, startAdr \in StartAddrs :
       subChannels = [i \in 0..(NumSubChannels - 1) |->
                        IF i \in defined
                        THEN [DefaultSubchannel EXCEPT !.subChId = i,
                                                       !.startAddr = startAdr]
                        ELSE DefaultSubchannel]
  /\ serviceRepeatCount = [s \in ServiceIds(services) |-> MaxRepeatCount]
  /\ elapsed = 0
  /\ emitted = <<>>
  /\ lastOp = NoOp
  /\ hist = [s \in SIds |-> IF s \in ServiceIds(services)
                            THEN [n |-> HistCap, d |-> 0, fresh |-> FALSE, detected |-> TRUE]
                            ELSE NoHistory[s]]
  /\ ensembleId = DefaultEnsembleId
  /\ ensembleEcc = DefaultEnsembleEcc
  /\ ensembleLabel = DefaultLabel
  /\ timeLastFCT0Frame = "clearEnsemble"
  /\ dateTime = DefaultDateTime
  /\ timeOffsetReceived = FALSE
  /\ call = NoCall

NextDrop == \E SId \in SIds : DropService(SId)

SpecDrop == InitDrop /\ [][NextDrop]_vars

\* ------------------------------------------------------- the sub channel table
\* HandleFIG0Extension5 on one record: lsFlag is the long form bit, rfu the
\* bit after it; the long form is read and not kept
HandleFIG0Extension5(subs, lsFlag, rfu, subChId, language) ==
  IF lsFlag = 0 /\ rfu = 0
  THEN [subs EXCEPT ![subChId] = [@ EXCEPT !.language = language]]
  ELSE subs

\* the body of the loop of FIG0Extension14 for one record: a linear scan of
\* the table for the slots that carry subChId
HandleFIG0Extension14(subs, subChId, fecScheme) ==
  [i \in DOMAIN subs |->
     IF subs[i].subChId = subChId THEN [subs[i] EXCEPT !.fecScheme = fecScheme]
     ELSE subs[i]]

\* language codes carried by the FIG0/5 records fed to the model
Languages == {8}

\* FEC schemes carried by the FIG0/14 records fed to the model
FecSchemes == {1}

\* processFIB meets a FIG0/5 record
FIG0Extension5(lsFlag, rfu, subChId, language) ==
  /\ subChannels' = HandleFIG0Extension5(subChannels, lsFlag, rfu, subChId, language)
  /\ emitted' = <<>>
  /\ lastOp' = [NoOp EXCEPT !.op = "FIG0/5", !.sid = subChId]
  /\ UNCHANGED <<services, components, serviceRepeatCount, elapsed, hist>>
  /\ UNCHANGED ensembleVars
  /\ UNCHANGED call

\* processFIB meets a FIG0/14 record
FIG0Extension14(subChId, fecScheme) ==
  /\ subChannels' = HandleFIG0Extension14(subChannels, subChId, fecScheme)
  /\ emitted' = <<>>
  /\ lastOp' = [NoOp EXCEPT !.op = "FIG0/14", !.sid = subChId]
  /\ UNCHANGED <<services, components, serviceRepeatCount, elapsed, hist>>
  /\ UNCHANGED ensembleVars
  /\ UNCHANGED call

\* the component vectors of the processors the table is followed in: no
\* component, one audio component, two that share sub channel 0, two on
\* sub channels of their own
TableComponents ==
  LET audio(SId, subChId) ==
        [TMid |-> TMidAudio, SId |-> SId, componentNr |-> 0,
         subchannelId |-> subChId, SCId |-> NoSCId, PS_flag |-> 1, Ty |-> 63,
         componentLabel |-> DefaultLabel]
  IN {<<>>, <<audio(0, 0)>>, <<audio(0, 0), audio(1, 0)>>, <<audio(0, 0), audio(1, 1)>>}

\* A processor in which FIG0/2 entries seen four times each have confirmed
\* the services SIds and bound their components, before any FIG0/1
InitTable ==
  /\ services = [i \in 1..Cardinality(SIds) |-> NewService(i - 1)]
  /\ components \in TableComponents
  /\ subChannels = [i \in 0..(NumSubChannels - 1) |-> DefaultSubchannel]
  /\ serviceRepeatCount = [s \in SIds |-> MaxRepeatCount]
  /\ elapsed = 0
  /\ emitted = <<>>
  /\ lastOp = NoOp
  /\ hist = [s \in SIds |-> [n |-> HistCap, d |-> 0, fresh |-> FALSE, detected |-> TRUE]]
  /\ ensembleId = DefaultEnsembleId
  /\ ensembleEcc = DefaultEnsembleEcc
  /\ ensembleLabel = DefaultLabel
  /\ timeLastFCT0Frame = "clearEnsemble"
  /\ dateTime = DefaultDateTime
  /\ timeOffsetReceived = FALSE
  /\ call = NoCall

\* FIG0/1, FIG0/5 and FIG0/14 records arrive for the sub channels SubChIds,
\* services are dropped and the ensemble is cleared
NextTable ==
  \/ \E subChId \in SubChIds, startAdr \in StartAddrs : FIG0Extension1(subChId, startAdr)
  \/ \E lsFlag \in {0, 1}, subChId \in SubChIds, language \in Languages :
       FIG0Extension5(lsFlag, 0, subChId, language)
  \/ \E subChId \in SubChIds, fecScheme \in FecSchemes : FIG0Extension14(subChId, fecScheme)
  \/ \E SId \in SIds : DropService(SId)
  \/ clearEnsemble

SpecTable == InitTable /\ [][NextTable]_vars

\* -------------------------------------------------- the ensemble level FIGs
\* the members after a handler of an ensemble level FIG has left them as es
EnsembleHandled(es, op, id, arg) ==
  /\ ensembleId' = es.ensembleId
  /\ ensembleEcc' = es.ensembleEcc
  /\ ensembleLabel' = es.ensembleLabel
  /\ timeLastFCT0Frame' = es.timeLastFCT0Frame
  /\ dateTime' = es.dateTime
  /\ timeOffsetReceived' = es.timeOffsetReceived
  /\ emitted' = es.emitted
  /\ lastOp' = [NoOp EXCEPT !.op = op, !.sid = id, !.threw = es.threw, !.arg = arg]
  /\ UNCHANGED <<services, components, subChannels, serviceRepeatCount, elapsed, hist,
                 call>>

\* processFIB meets a FIG0/0
FIG0Extension0(eId, lowpart) ==
  EnsembleHandled(DecodeFIG0Extension0(EnsembleStore, eId, lowpart), "FIG0/0", eId,
                  [eId |-> eId, lowpart |-> lowpart])

\* processFIB meets a FIG0/9
FIG0Extension9(sign, hours, half, ecc) ==
  EnsembleHandled(DecodeFIG0Extension9(EnsembleStore, sign, hours, half, ecc), "FIG0/9", ecc,
                  [sign |-> sign, hours |-> hours, half |-> half, ecc |-> ecc])

\* processFIB meets a FIG1/0
FIG1Extension0(oe, charSet, EId, label, flag) ==
  EnsembleHandled(DecodeFIG1Extension0(EnsembleStore, oe, charSet, EId, label, flag),
                  "FIG1/0", EId,
                  [oe |-> oe, charSet |-> charSet, EId |-> EId, label |-> label,
                   flag |-> flag])

\* processFIB meets a FIG2/0
FIG2Extension0(figlen, toggle_flag, segment_index, rfu, eid, figdata) ==
  EnsembleHandled(DecodeFIG2Extension0(EnsembleStore, figlen, toggle_flag, segment_index,
                                       rfu, eid, figdata), "FIG2/0", eid,
                  [figlen |-> figlen, toggle_flag |-> toggle_flag,
                   segment_index |-> segment_index, rfu |-> rfu, eid |-> eid,
                   figdata |-> figdata])

\* the local time offsets of the FIG0/9 fed to the model: +1 h and -1 h 30 min
TimeOffsets == {[sign |-> 0, hours |-> 1, half |-> 0], [sign |-> 1, hours |-> 1, half |-> 1]}

\* the label of the FIG1/0 fed to the model
EnsembleA == <<69, 78, 83, 69, 77, 66, 76, 69, 32, 65, 32, 32, 32, 32, 32, 32>>

Fig1Labels == {EnsembleA}

\* the FIG2/0 fed to the model, by length and data field: no data field, a
\* first segment that is all header, a segment of one character (its first
\* byte says UTF-8, two segments)
Fig2Fields ==
  {[figlen |-> 3, figdata |-> <<>>],
   [figlen |-> 6, figdata |-> <<16, 0, 0>>],
   [figlen |-> 7, figdata |-> <<16, 0, 0, 65>>]}

\* FIG0/0, FIG0/9, FIG1/0 and FIG2/0 arrive for the ensemble ids EIds, and
\* the ensemble is cleared
NextEnsemble ==
  \/ \E eId \in EIds, lowpart \in {0, 1} : FIG0Extension0(eId, lowpart)
  \/ \E t \in TimeOffsets, ecc \in Eccs : FIG0Extension9(t.sign, t.hours, t.half, ecc)
  \/ \E oe \in {0, 1}, EId \in EIds, label \in Fig1Labels :
       FIG1Extension0(oe, 0, EId, label, 0)
  \/ \E f \in Fig2Fields, toggle_flag \in {0, 1}, segment_index \in {0, 1}, eid \in EIds :
       FIG2Extension0(f.figlen, toggle_flag, segment_index, 0, eid, f.figdata)
  \/ clearEnsemble

SpecEnsemble == Init /\ [][NextEnsemble]_vars

\* ------------------------------------------------------------ the dispatcher
\* the FIGs the FIBs fed to the dispatcher are made of: FIGtype and Length
\* are the 3 and 5 bits of the FIG header, extension and arg the fields of
\* the FIG that its handler reads
Fig00(eId) ==
  [FIGtype |-> 0, Length |-> 5, extension |-> 0, arg |-> [eId |-> eId, lowpart |-> 1]]

Fig09 ==
  [FIGtype |-> 0, Length |-> 4, extension |-> 9,
   arg |-> [sign |-> 0, hours |-> 1, half |-> 0, ecc |-> 224]]

Fig10(EId) ==
  [FIGtype |-> 1, Length |-> 21, extension |-> 0,
   arg |-> [oe |-> 0, charSet |-> 0, EId |-> EId, label |-> EnsembleA, flag |-> 0]]

Fig6 == [FIGtype |-> 6, Length |-> 3, extension |-> 0, arg |-> <<>>]

\* a FIG2/0 with the data field figdata: one byte of header and two of
\* identifier come before the data field
Fig20(toggle_flag, segment_index, eid, figdata) ==
  [FIGtype |-> 2, Length |-> FIG2HeaderLength + FIG2EnsembleIdLength + Len(figdata),
   extension |-> 0,
   arg |-> [toggle_flag |-> toggle_flag, segment_index |-> segment_index, rfu |-> 0,
            eid |-> eid, figdata |-> figdata]]

\* a FIG of a type without a handler: 3, 4 or 5
FigUnsupported(FIGtype, Length) ==
  [FIGtype |-> FIGtype, Length |-> Length, extension |-> 0, arg |-> <<>>]

\* the end marker, which is also the padding byte 0xFF
EndMarker == [FIGtype |-> 7, Length |-> 31, extension |-> 31, arg |-> <<>>]

\* the whole processor, as processFIB and the handlers it calls work on it
Processor ==
  [services |-> services, components |-> components,
   subChannels |-> subChannels, serviceRepeatCount |-> serviceRepeatCount,
   ensembleId |-> ensembleId, ensembleEcc |-> ensembleEcc,
   ensembleLabel |-> ensembleLabel, timeLastFCT0Frame |-> timeLastFCT0Frame,
   dateTime |-> dateTime, timeOffsetReceived |-> timeOffsetReceived,
   emitted |-> <<>>, removed |-> {}, orphaned |-> {}, threw |-> FALSE,
   decoded |-> <<>>]

\* process_FIG0 on a FIG of the kinds fed to the dispatcher: FIG0/0, FIG0/9
\* and the extensions without a handler
process_FIG0(st, fig) ==
  IF fig.extension = 0
  THEN DecodeFIG0Extension0(st, fig.arg.eId, fig.arg.lowpart)
  ELSE IF fig.extension = 9
  THEN DecodeFIG0Extension9(st, fig.arg.sign, fig.arg.hours, fig.arg.half, fig.arg.ecc)
  ELSE st

\* process_FIG1 on a FIG of the kinds fed to the dispatcher: FIG1/0
process_FIG1(st, fig) ==
  IF fig.extension = 0
  THEN DecodeFIG1Extension0(st, fig.arg.oe, fig.arg.charSet, fig.arg.EId,
                            fig.arg.label, fig.arg.flag)
  ELSE st

\* process_FIG2 on a FIG of the kinds fed to the dispatcher: FIG2/0
process_FIG2(st, fig) ==
  IF fig.extension = 0
  THEN DecodeFIG2Extension0(st, fig.Length, fig.arg.toggle_flag, fig.arg.segment_index,
                            fig.arg.rfu, fig.arg.eid, fig.arg.figdata)
  ELSE st

\* the switch on FIGtype for the types that do not end the call;
\* process_FIGUnsupported logs only
DispatchFIG(st, fig) ==
  IF fig.FIGtype = 0 THEN process_FIG0(st, fig)
  ELSE IF fig.FIGtype = 1 THEN process_FIG1(st, fig)
  ELSE IF fig.FIGtype = 2 THEN process_FIG2(st, fig)
  ELSE st

\* number of bytes of a FIB that carry FIGs
FIBPayload == 30

\* a loop in which the default case ends in return, as the cases 6 and 7 do
RECURSIVE FIBLoop_ReturnOnUnsupported(_, _, _, _)
FIBLoop_ReturnOnUnsupported(st, fib, k, processedBytes) ==
  IF processedBytes >= FIBPayload THEN st
  ELSE LET fig  == fib[k]
           seen == [DispatchFIG(st, fig) EXCEPT !.decoded = Append(@, k)]
       IN IF fig.FIGtype \in {3, 4, 5, 6, 7} THEN seen
          ELSE IF seen.threw THEN seen
          ELSE FIBLoop_ReturnOnUnsupported(seen, fib, k + 1,
                                           processedBytes + fig.Length + 1)

\* a loop in which the cases 6 and 7 end in break, as the other cases do
RECURSIVE FIBLoop_BreakOnEndMarker(_, _, _, _)
FIBLoop_BreakOnEndMarker(st, fib, k, processedBytes) ==
  IF processedBytes >= FIBPayload THEN st
  ELSE LET fig  == fib[k]
           seen == [DispatchFIG(st, fig) EXCEPT !.decoded = Append(@, k)]
       IN IF seen.threw THEN seen
          ELSE FIBLoop_BreakOnEndMarker(seen, fib, k + 1,
                                        processedBytes + fig.Length + 1)

\* the loop of processFIB, at the FIG k of the FIB, which starts at the byte
\* processedBytes: process_FIG6 and process_FIG7 do nothing, and the call
\* returns after them; nothing catches the std::runtime_error of
\* process_FIG2, which leaves the call
RECURSIVE FIBLoop(_, _, _, _)
FIBLoop(st, fib, k, processedBytes) ==
  IF processedBytes >= FIBPayload THEN st
  ELSE LET fig  == fib[k]
           seen == [DispatchFIG(st, fig) EXCEPT !.decoded = Append(@, k)]
       IN IF fig.FIGtype = 6 \/ fig.FIGtype = 7 THEN seen
          ELSE IF seen.threw THEN seen
          ELSE FIBLoop(seen, fib, k + 1, processedBytes + fig.Length + 1)

\* processFIB(p, fib): processedBytes = 0, d = p
processFIB(st, fib) == FIBLoop(st, fib, 1, 0)

\* largest number of FIGs in a FIB before its padding
MaxFIGs == 2

\* the FIBs fed to the dispatcher: up to MaxFIGs FIGs, among them FIGs of
\* type 6 and 7, then padding
FIGs == {Fig00(1), Fig00(2), Fig09, Fig10(1), Fig6, EndMarker}

FIBs == {Append(q, EndMarker) : q \in SeqsUpTo(FIGs, MaxFIGs)}

\* the positions of the FIGs of type 6 and 7 in a FIB
EndMarkers(fib) == {k \in DOMAIN fib : fib[k].FIGtype \in {6, 7}}

\* the ensemble ids of the FIG0/0 located after the first FIG of type 6 or 7
SkippedIds(fib) ==
  {fib[k].arg.eId : k \in {j \in DOMAIN fib :
                             /\ fib[j].FIGtype = 0 /\ fib[j].extension = 0
                             /\ \E t \in EndMarkers(fib) : t < j}}

\* a call of processFIB
ProcessFIB(fib) ==
  LET st == processFIB(Processor, fib)
  IN /\ services' = st.services
     /\ components' = st.components
     /\ subChannels' = st.subChannels
     /\ serviceRepeatCount' = st.serviceRepeatCount
     /\ ensembleId' = st.ensembleId
     /\ ensembleEcc' = st.ensembleEcc
     /\ ensembleLabel' = st.ensembleLabel
     /\ timeLastFCT0Frame' = st.timeLastFCT0Frame
     /\ dateTime' = st.dateTime
     /\ timeOffsetReceived' = st.timeOffsetReceived
     /\ emitted' = st.emitted
     /\ lastOp' = [NoOp EXCEPT !.op = "processFIB", !.threw = st.threw,
                               !.fib = fib, !.decoded = st.decoded]
     /\ UNCHANGED <<elapsed, hist, call>>

\* FIBs arrive, and the ensemble is cleared between them
NextFIB ==
  \/ \E fib \in FIBs : ProcessFIB(fib)
  \/ clearEnsemble

SpecFIB == Init /\ [][NextFIB]_vars

\* ------------------------------------------ the binding of announced components
StreamOn(subChId) ==
  [TMid |-> TMidStream, SubChId |-> subChId, SCId |-> NoSCId, PS_flag |-> 0, Ty |-> 0]

PacketOn(SCId, unwritten) ==
  [TMid |-> TMidPacket, SubChId |-> unwritten, SCId |-> SCId, PS_flag |-> 0, Ty |-> NoTy]

\* the component lists of the FIG0/2 entries fed to the binding: component 0
\* announced as audio, as stream data or as packet data, the latter with a
\* second component
BindLists ==
  {<<AudioOn(0)>>, <<StreamOn(1)>>, <<PacketOn(7, InvalidSubChId), AudioOn(0)>>}

\* FIG0/2 entries that announce components arrive for the service ids SIds
\* while time passes and decay passes run
NextBind ==
  \/ Tick
  \/ \E SId \in SIds, descs \in BindLists : FIG0Extension2(SId, descs)

SpecBind == Init /\ [][NextBind]_vars

\* ------------------------------------------------- the loops of processFIB
\* processFIB is followed loop by loop: the head of its own loop, and the head
\* of the record loop of the FIG0 handler it has called.  The loop conditions
\* read the offset and the Length of the FIG only, and the offset moves by the
\* fields each record carries, so the fields are what each step draws; what
\* the handlers store in the members enters no loop condition and is modelled
\* by the actions above.

\* the value an int16_t holds after x is assigned to it
ToInt16(x) == LET m == x % 65536 IN IF m >= 32768 THEN m - 65536 ELSE m

\* the value an int8_t holds after x is assigned to it
ToInt8(x) == LET m == x % 256 IN IF m >= 128 THEN m - 256 ELSE m

\* a / b of C++ on integers, b > 0: the quotient is truncated towards zero
Quot(a, b) == IF a >= 0 THEN a \div b ELSE -((-a) \div b)

\* the FIG0 extensions whose handler walks the records of the FIG in a loop
RecordExtensions == {1, 2, 3, 5, 8, 13, 14, 17, 18, 19, 22}

\* the extensions whose records have a size that depends on the P/D bit
PDExtensions == {2, 8, 13}

\* the extensions whose loop counts its offset in bits
BitExtensions == {17, 18, 19}

\* the values of the fields that move an offset
Bits == {0, 1}
ComponentCounts == {0, 1, 15}
AppLengthLists ==
  {<<>>, <<0>>, <<31>>, <<4, 0>>,
   <<0, 0, 0, 0, 0, 0, 0, 0, 0, 0, 0, 0, 0, 0, 0>>,
   <<31, 31, 31, 31, 31, 31, 31, 31, 31, 31, 31, 31, 31, 31, 31>>}
ClusterCounts == {0, 1, 31}
SubfieldCounts == {0, 1, 7}

\* HandleFIG0Extension1: a short form record takes 24 bits, a long form 32
UsedAfterFIG0Extension1(offset, longForm) ==
  LET bitOffset == ToInt16(offset * 8)
  IN Quot(ToInt16(bitOffset + (IF longForm = 0 THEN 24 ELSE 32)), 8)

\* HandleFIG0Extension2: the service id, the byte that counts the components,
\* and 16 bits for each component
UsedAfterFIG0Extension2(offset, pd, numberofComponents) ==
  LET lOffset == ToInt16(8 * offset)
      afterId == ToInt16(lOffset + (IF pd = 1 THEN 32 ELSE 16))
      afterCount == ToInt16(afterId + 8)
  IN Quot(ToInt16(afterCount + 16 * numberofComponents), 8)

\* HandleFIG0Extension3
UsedAfterFIG0Extension3(used) == ToInt16(used + Quot(56, 8))

\* HandleFIG0Extension5: the short form takes 16 bits, the long form 24
UsedAfterFIG0Extension5(offset, lsFlag) ==
  LET loffset == ToInt16(offset * 8)
  IN Quot(ToInt16(loffset + (IF lsFlag = 0 THEN 16 ELSE 24)), 8)

\* HandleFIG0Extension8
UsedAfterFIG0Extension8(used, pdBit, lsFlag, extensionFlag) ==
  LET lOffset == ToInt16(used * 8)
      afterId == ToInt16(lOffset + (IF pdBit = 1 THEN 32 ELSE 16))
      afterSCIds == ToInt16(afterId + 4)
      afterForm == ToInt16(afterSCIds + (IF lsFlag = 1 THEN 16 ELSE 8))
      afterRfa == IF extensionFlag = 1 THEN ToInt16(afterForm + 8) ELSE afterForm
  IN Quot(afterRfa, 8)

\* the bytes of data of the user applications, the sum of their lengths
AppBytes(lengths) ==
  Cardinality({p \in (DOMAIN lengths) \X (1 .. 31) : p[2] <= lengths[p[1]]})

\* the loop over the user applications of HandleFIG0Extension13: each takes
\* 11 bits of type, 5 bits of length, and bitOffsetNext, a uint16_t, skips
\* its data.  Every addition of the loop is one modulo 2^16, so the offset
\* after the loop is the sum converted once.
AppsOffset(bitOffset, lengths) ==
  ToInt16((bitOffset + (11 + 5) * Len(lengths) + 8 * AppBytes(lengths)) % 65536)

\* HandleFIG0Extension13
UsedAfterFIG0Extension13(used, PD_bit, lengths) ==
  LET bitOffset == ToInt16(used * 8)
      SIdLength == IF PD_bit = 1 THEN 32 ELSE 16
      afterId == ToInt16(bitOffset + SIdLength)
      afterCount == ToInt16(afterId + 8)
  IN Quot(AppsOffset(afterCount, lengths), 8)

\* FIG0Extension14
UsedAfterFIG0Extension14(used) == ToInt16(used + 1)

\* FIG0Extension17, in bits
OffsetAfterFIG0Extension17(offset, L_flag, CC_flag) ==
  LET afterLanguage == IF L_flag = 1 THEN ToInt16(offset + 8) ELSE offset
  IN ToInt16(afterLanguage + (IF CC_flag = 1 THEN 40 ELSE 32))

\* a record that takes the bytes of its clusters only, without the 40 bits
\* before them: a record without clusters leaves the offset where it was
OffsetAfterFIG0Extension18_ClustersOnly(offset, NumClusters) ==
  ToInt16(offset + NumClusters * 8)

\* FIG0Extension18, in bits
OffsetAfterFIG0Extension18(offset, NumClusters) ==
  ToInt16(offset + 40 + NumClusters * 8)

\* FIG0Extension19, in bits
OffsetAfterFIG0Extension19(offset, region_flag) ==
  ToInt16(offset + (IF region_flag = 1 THEN 40 ELSE 32))

\* HandleFIG0Extension22
UsedAfterFIG0Extension22(used, MS, noSubfields) ==
  IF MS = 0 THEN ToInt16(used + Quot(48, 6))
  ELSE ToInt16(used + Quot(16 + noSubfields * 48, 8))

\* the offset a record loop starts with
LoopStart(extension) == IF extension \in BitExtensions THEN 16 ELSE 2

\* the condition of the record loop of each handler
LoopCondition(extension, Length, used) ==
  CASE extension = 1 -> used < Length - 1
    [] extension \in {2, 3, 5, 8, 13, 14, 22} -> used < Length
    [] extension = 17 -> used < Length * 8
    [] extension \in {18, 19} -> Quot(used, 8) < Length - 1
    [] OTHER -> FALSE

\* the offsets one more record can leave, over the fields it can carry
RecordAdvances(extension, pd, used) ==
  CASE extension = 1 -> {UsedAfterFIG0Extension1(used, f) : f \in Bits}
    [] extension = 2 ->
         {UsedAfterFIG0Extension2(used, pd, n) : n \in ComponentCounts}
    [] extension = 3 -> {UsedAfterFIG0Extension3(used)}
    [] extension = 5 -> {UsedAfterFIG0Extension5(used, f) : f \in Bits}
    [] extension = 8 ->
         {UsedAfterFIG0Extension8(used, pd, f[1], f[2]) : f \in Bits \X Bits}
    [] extension = 13 ->
         {UsedAfterFIG0Extension13(used, pd, l) : l \in AppLengthLists}
    [] extension = 14 -> {UsedAfterFIG0Extension14(used)}
    [] extension = 17 ->
         {OffsetAfterFIG0Extension17(used, f[1], f[2]) : f \in Bits \X Bits}
    [] extension = 18 ->
         {OffsetAfterFIG0Extension18(used, n) : n \in ClusterCounts}
    [] extension = 19 -> {OffsetAfterFIG0Extension19(used, f) : f \in Bits}
    [] extension = 22 ->
         {UsedAfterFIG0Extension22(used, f, n) : f \in Bits, n \in SubfieldCounts}
    [] OTHER -> {}

\* the end of one round of the loop of processFIB: the Length of the FIG and
\* one more byte are added to processedBytes, and the loop is left at 30;
\* the locals of the handler are gone
NextFIGOrReturn(c, Length) ==
  LET processedBytes == ToInt8(c.processedBytes + Length + 1)
  IN [NoCall EXCEPT !.pc = IF processedBytes < FIBPayload THEN "fig" ELSE "done",
                    !.processedBytes = processedBytes]

\* the members of the processor, which the loops are followed without
members == <<services, components, subChannels, serviceRepeatCount, elapsed,
             emitted, lastOp, hist, ensembleVars>>

\* processFIB is called
StartFIB ==
  /\ call.pc = "idle"
  /\ call' = [NoCall EXCEPT !.pc = "fig"]
  /\ UNCHANGED members

\* the loop of processFIB meets a FIG: type 6 and 7 return, a FIG0 with records
\* enters the loop of its handler, every other FIG is handled without a loop;
\* a FIG2 with a label that is too short leaves the call by an exception
MeetFIG(FIGtype, Length, extension, pd, tooShort) ==
  /\ call.pc = "fig"
  /\ call' = IF FIGtype \in {6, 7}
               THEN [call EXCEPT !.pc = "done", !.endMarker = TRUE]
             ELSE IF FIGtype = 2 /\ tooShort
               THEN [call EXCEPT !.pc = "done", !.threw = TRUE]
             ELSE IF FIGtype = 0 /\ extension \in RecordExtensions
               THEN [call EXCEPT !.pc = "records", !.extension = extension,
                                 !.Length = Length,
                                 !.pd = IF extension \in PDExtensions
                                          THEN pd ELSE 0,
                                 !.used = LoopStart(extension)]
             ELSE NextFIGOrReturn(call, Length)
  /\ UNCHANGED members

\* one more record of the FIG is handled
RecordStep(used) ==
  /\ call.pc = "records"
  /\ LoopCondition(call.extension, call.Length, call.used)
  /\ used \in RecordAdvances(call.extension, call.pd, call.used)
  /\ call' = [call EXCEPT !.used = used, !.records = @ + 1]
  /\ UNCHANGED members

\* the record loop is left and the handler returns to processFIB
LeaveRecords ==
  /\ call.pc = "records"
  /\ ~LoopCondition(call.extension, call.Length, call.used)
  /\ call' = NextFIGOrReturn(call, call.Length)
  /\ UNCHANGED members

\* the FIG headers the loop of processFIB is given: every type, every
\* extension, and the lengths around the start of a record loop, the length
\* of a few records, and the largest
FIGtypes == 0 .. 7
Lengths == {0, 1, 2, 3, 5, 9, 31}
Extensions == 0 .. 31

NextLoop ==
  \/ StartFIB
  \/ /\ call.pc = "fig"
     /\ \E FIGtype \in FIGtypes, Length \in Lengths, extension \in Extensions,
           pd \in Bits, tooShort \in BOOLEAN :
           MeetFIG(FIGtype, Length, extension, pd, tooShort)
  \/ \E used \in RecordAdvances(call.extension, call.pd, call.used) :
        RecordStep(used)
  \/ LeaveRecords

\* the thread that called processFIB keeps running it
SpecLoop == Init /\ [][NextLoop]_vars /\ WF_vars(NextLoop)


\* ------------------------------------------- FIBs with FIGs that are not decoded
\* the FIGs without a handler fed to the dispatcher: the shortest, a short
\* one, and one that ends at byte 28 of a FIB it starts
UnsupportedFIGs ==
  {FigUnsupported(3, 0), FigUnsupported(4, 2), FigUnsupported(5, 27)}

\* the FIG2/0 fed to the dispatcher, for ensemble 1: a first segment that is
\* all header, and a first segment with one character
ShortFig20 == Fig20(0, 0, 1, <<16, 0, 0>>)

LabelFig20 == Fig20(0, 0, 1, <<16, 0, 0, 65>>)

\* the FIGs the dispatcher decodes, around the ones it does not
DecodedFIGs == {Fig00(1), Fig00(2), Fig09}

\* the FIBs: a FIG without a handler or a FIG2/0 in front of a decoded FIG,
\* with and without a decoded FIG before it, and the FIBs without either
MalformedFIBs ==
  LET middle == UnsupportedFIGs \cup {ShortFig20, LabelFig20}
  IN      {<<a, m, b, EndMarker>> : a \in DecodedFIGs, m \in middle, b \in DecodedFIGs}
     \cup {<<m, b, EndMarker>> : m \in middle, b \in DecodedFIGs}
     \cup {<<a, b, EndMarker>> : a \in DecodedFIGs, b \in DecodedFIGs}

NextMalformed == \E fib \in MalformedFIBs : ProcessFIB(fib)

SpecMalformed == Init /\ [][NextMalformed]_vars


\* ---------------------------------------------- the segments of a FIG2 label
\* The ensemble label is sent in two versions, which the toggle flag tells
\* apart: version 0 in three segments, version 1 in four.

\* the segments of the label version with this toggle flag
SegmentsOf(toggle_flag) == IF toggle_flag = 0 THEN 3 ELSE 4

\* the first byte of segment 0: encoding flag 0, the segment count field
\* (segments - 1) in bits 6 to 4, Rfa 0
FirstByte(toggle_flag) == 16 * (SegmentsOf(toggle_flag) - 1)

\* the data field of the segment segment_index of a version: segment 0 has
\* the first byte, the two bytes of the character flag and one character,
\* the other segments one character each
SegmentField(toggle_flag, segment_index) ==
  IF segment_index = 0 THEN <<FirstByte(toggle_flag), 0, 0, 65 + toggle_flag>>
  ELSE <<70 + 10 * toggle_flag + segment_index>>

\* the data field of a segment 0 that is cut after its character flag
ShortSegmentField(toggle_flag) == <<FirstByte(toggle_flag), 0, 0>>

\* the data fields a FIG2/0 arrives with
ArrivingFields(toggle_flag, segment_index) ==
  IF segment_index = 0
  THEN {SegmentField(toggle_flag, 0), ShortSegmentField(toggle_flag)}
  ELSE {SegmentField(toggle_flag, segment_index)}

\* the ensemble the label is sent for
LabelEId == 1

\* the FIG0/0 of the ensemble arrives, and the segments of the two versions
\* of its label arrive in any order, any number of times
NextLabel ==
  \/ FIG0Extension0(LabelEId, 1)
  \/ \E toggle_flag \in {0, 1} :
       \E segment_index \in 0 .. (SegmentsOf(toggle_flag) - 1) :
         \E figdata \in ArrivingFields(toggle_flag, segment_index) :
           FIG2Extension0(FIG2HeaderLength + FIG2EnsembleIdLength + Len(figdata),
                          toggle_flag, segment_index, 0, LabelEId, figdata)

SpecLabel == Init /\ [][NextLabel]_vars

\* ---------------------------------------------------------- the FIG1 labels
\* the part of the processor that process_FIG1 works on
LabelStore == [ensembleId |-> ensembleId, ensembleLabel |-> ensembleLabel,
               services |-> services, components |-> components, emitted |-> <<>>]

\* the element std::find_if returns among the positions S: the first
FirstOf(S) == CHOOSE i \in S : \A j \in S : i <= j

\* a service label that is sent without the lookup of the service
DecodeFIG1ServiceLabel_NoLookup(st, charSet, SId, chars, flag) ==
  LET found == {i \in DOMAIN st.services : st.services[i].serviceId = SId}
      l == SetFig1(IF found = {} THEN DefaultLabel
                   ELSE st.services[FirstOf(found)].serviceLabel, charSet, chars, flag)
  IN [st EXCEPT !.services = [i \in DOMAIN @ |->
                                IF i \in found /\ i = FirstOf(found)
                                THEN [@[i] EXCEPT !.serviceLabel = l] ELSE @[i]],
                !.emitted = Append(@, [kind |-> "onSetServiceLabel",
                                       SId |-> SId, label |-> l])]

\* case 1 and case 5 of process_FIG1: the label of the service SId, if
\* findServiceId finds it, and onSetServiceLabel
DecodeFIG1ServiceLabel(st, charSet, SId, chars, flag) ==
  LET found == {i \in DOMAIN st.services : st.services[i].serviceId = SId}
  IN IF found = {} THEN st
     ELSE LET i == FirstOf(found)
              l == SetFig1(st.services[i].serviceLabel, charSet, chars, flag)
          IN [st EXCEPT !.services[i].serviceLabel = l,
                        !.emitted = Append(@, [kind |-> "onSetServiceLabel",
                                               SId |-> SId, label |-> l])]

\* case 4 of process_FIG1: the label of the component SCidS of the service
\* SId, if findComponent finds it; nothing is sent
DecodeFIG1ComponentLabel(st, charSet, SId, SCidS, chars, flag) ==
  LET found == {i \in DOMAIN st.components :
                  st.components[i].SId = SId /\ st.components[i].componentNr = SCidS}
  IN IF found = {} THEN st
     ELSE LET i == FirstOf(found)
          IN [st EXCEPT !.components[i].componentLabel =
                           SetFig1(@, charSet, chars, flag)]

\* the switch of process_FIG1 over the extension: id is the identifier field
\* (EId or SId); the region label, the XPAD label and the other extensions
\* are logged
FIG1Switch(st, charSet, oe, extension, id, SCidS, chars, flag) ==
  CASE extension = 0 -> DecodeFIG1Extension0(st, oe, charSet, id, chars, flag)
    [] extension \in {1, 5} -> DecodeFIG1ServiceLabel(st, charSet, id, chars, flag)
    [] extension = 4 -> DecodeFIG1ComponentLabel(st, charSet, id, SCidS, chars, flag)
    [] OTHER -> st

\* process_FIG1 that goes into the switch whatever the other-ensemble bit is
DecodeFIG1_IgnoreOe(st, charSet, oe, extension, id, SCidS, chars, flag) ==
  FIG1Switch(st, charSet, oe, extension, id, SCidS, chars, flag)

\* process_FIG1: a FIG1 with the other-ensemble bit returns before the switch
DecodeFIG1(st, charSet, oe, extension, id, SCidS, chars, flag) ==
  IF oe = 1 THEN st
  ELSE FIG1Switch(st, charSet, oe, extension, id, SCidS, chars, flag)

\* processFIB meets a FIG1 with the fields f
FIG1(f) ==
  LET st == DecodeFIG1(LabelStore, f.charSet, f.oe, f.extension, f.id, f.SCidS,
                       f.chars, f.flag)
  IN /\ ensembleLabel' = st.ensembleLabel
     /\ services' = st.services
     /\ components' = st.components
     /\ emitted' = st.emitted
     /\ lastOp' = [NoOp EXCEPT !.op = "FIG1", !.sid = f.id, !.arg = f]
     /\ UNCHANGED <<subChannels, serviceRepeatCount, elapsed, hist, ensembleId,
                    ensembleEcc, timeLastFCT0Frame, dateTime, timeOffsetReceived, call>>

\* a label of 16 characters without a 0, and one with a 0 as sixth character
RadioOneLabel == <<82, 65, 68, 73, 79, 32, 79, 78, 69, 32, 32, 32, 32, 32, 32, 32>>

RadioLabel == <<82, 65, 68, 73, 79, 0, 79, 78, 69, 32, 32, 32, 32, 32, 32, 32>>

\* the texts of the FIG1 fed to the model, with their character flag field
\* and character set: EBU Latin with the first 5 characters as abbreviation,
\* and UTF-8 with no abbreviation
Fig1Texts ==
  {[chars |-> RadioOneLabel, flag |-> 63488, charSet |-> 0],
   [chars |-> RadioLabel, flag |-> 0, charSet |-> 15]}

\* the identifiers of the FIG1 fed to the model: 1 is the ensemble of the
\* FIG0/0 and a service that is stored, 2 is neither
Fig1Ids == {1, 2}

\* the FIG1 fed to the model: every extension, with and without the
\* other-ensemble bit; the identifier is read by the extensions 0, 1, 4 and
\* 5, SCidS by extension 4, and a field that is not read has one value
Fig1s ==
  {[charSet |-> t.charSet, oe |-> oe, extension |-> extension, id |-> id,
    SCidS |-> SCidS, chars |-> t.chars, flag |-> t.flag] :
     t \in Fig1Texts, oe \in {0, 1}, extension \in 0..7, id \in Fig1Ids, SCidS \in {0, 1}}

ReadFig1s ==
  {f \in Fig1s : /\ f.extension \notin {0, 1, 4, 5} => f.id = 1
                 /\ f.extension # 4 => f.SCidS = 0}

\* in a processor that has confirmed the services SIds, a FIG0/0 names the
\* ensemble and FIG1 arrive
NextFIG1 ==
  \/ FIG0Extension0(LabelEId, 1)
  \/ \E f \in ReadFig1s : FIG1(f)

SpecFIG1 == InitTable /\ [][NextFIG1]_vars

\* ------------------------------------------------------- the date and time
\* processFIB meets a FIG0/10
FIG0Extension10(mjd, utc, hour, minutes, seconds) ==
  EnsembleHandled(DecodeFIG0Extension10(EnsembleStore, mjd, utc, hour, minutes, seconds),
                  "FIG0/10", mjd,
                  [mjd |-> mjd, utc |-> utc, hour |-> hour, minutes |-> minutes,
                   seconds |-> seconds])

\* the dates of the FIG0/10 fed to the model: 1 January 2000 and
\* 29 February 2024
MJDs == {51544, 60369}

\* the times of the FIG0/10 fed to the model, in the short form and in the
\* long form with the seconds
Hours == {0, 23}

Minutes == {0, 59}

Seconds == {30, 59}

\* FIG0/9 and FIG0/10 arrive, and the ensemble is cleared
NextTime ==
  \/ \E t \in TimeOffsets, ecc \in Eccs : FIG0Extension9(t.sign, t.hours, t.half, ecc)
  \/ \E mjd \in MJDs, utc \in {0, 1}, hour \in Hours, minutes \in Minutes,
        seconds \in Seconds :
       FIG0Extension10(mjd, utc, hour, minutes, seconds)
  \/ clearEnsemble

SpecTime == Init /\ [][NextTime]_vars

\* ------------------------------------------------------------ the calendar
\* the Modified Julian Dates at which the days that are followed begin: every
\* 8192nd
CalendarStarts == {k * 8192 : k \in 0..15}

\* a FIG0/10 of 12:00 arrives for one of the CalendarStarts, and then one for
\* each following day up to the last Modified Julian Date of 17 bits
FirstDay ==
  /\ lastOp.op # "FIG0/10"
  /\ \E mjd \in CalendarStarts : FIG0Extension10(mjd, 0, 12, 0, 0)

FollowingDay ==
  /\ lastOp.op = "FIG0/10"
  /\ lastOp.arg.mjd < MaxMJD
  /\ FIG0Extension10(lastOp.arg.mjd + 1, 0, 12, 0, 0)

NextCalendar == FirstDay \/ FollowingDay

SpecCalendar == Init /\ [][NextCalendar]_vars

\* ----------------------------------------- the labels of sighted services
\* the FIG1/1 and FIG1/5 fed to the model, for the service ids SIds
ServiceLabelFig1s ==
  {[charSet |-> 0, oe |-> oe, extension |-> extension, id |-> SId, SCidS |-> 0,
    chars |-> RadioOneLabel, flag |-> 0] :
     oe \in {0, 1}, extension \in {1, 5}, SId \in SIds}

\* FIG0/2 entries and service labels arrive for the service ids SIds while
\* time passes and decay passes run
NextServiceLabel ==
  \/ Tick
  \/ \E SId \in SIds : FIG0Extension2(SId, <<AudioOn(0)>>)
  \/ \E f \in ServiceLabelFig1s : FIG1(f)

SpecServiceLabel == Init /\ [][NextServiceLabel]_vars

\* ------------------------------------------------------ the snapshot queries
\* getServiceList: a copy of the service vector
getServiceList(svcs) == svcs

\* getService(sId): the first service with the id, or Service(0)
getService(svcs, sId) ==
  LET found == {i \in DOMAIN svcs : svcs[i].serviceId = sId}
  IN IF found = {} THEN NewService(0) ELSE svcs[FirstOf(found)]

\* getComponents(s): the components of the service, in their order
getComponents(comps, SId) == SelectSeq(comps, LAMBDA c : c.SId = SId)

\* getSubchannel(sc): subChannels.at(sc.subchannelId), which throws
\* std::out_of_range for an index that is no slot of the table (-1 is
\* converted to the greatest size_t)
getSubchannel(subs, sc) ==
  IF sc.subchannelId \in DOMAIN subs
  THEN [threw |-> FALSE, value |-> subs[sc.subchannelId]]
  ELSE [threw |-> TRUE, value |-> DefaultSubchannel]

\* ------------------------------------------- the threads and the mutex
\* what the queries getServiceList and getComponents return
QueryView ==
  [services |-> getServiceList(services),
   components |-> [s \in SIds |-> getComponents(components, s)]]

\* std::lock_guard<std::mutex> lock(mutex) returns when no thread holds the
\* mutex
CanLock(owner) == owner = "none"

\* the variables no step of a thread below writes
threadFrame ==
  <<elapsed, hist, ensembleId, ensembleEcc, ensembleLabel, dateTime, timeOffsetReceived>>

\* the decoding thread enters processFIB with a FIB that holds the FIG0/2
\* entry (SId, descs) and takes the lock
LockFIB(SId, descs) ==
  /\ call.decoder = "idle"
  /\ CanLock(call.owner)
  /\ call' = [call EXCEPT !.owner = "decoder", !.decoder = "locked",
                          !.entry = [SId |-> SId, descs |-> descs],
                          !.answer = <<>>, !.threw = FALSE]
  /\ lastOp' = [NoOp EXCEPT !.op = "processFIB", !.sid = SId, !.descs = descs]
  /\ emitted' = <<>>
  /\ UNCHANGED <<services, components, subChannels, serviceRepeatCount, timeLastFCT0Frame>>
  /\ UNCHANGED threadFrame

\* the debounce part of HandleFIG0Extension2; a service that is confirmed is
\* appended and the thread is in onServiceDetected
DebounceEntry ==
  /\ call.decoder = "locked"
  /\ LET st == Debounce(Store, call.entry.SId, FALSE)
     IN /\ services' = st.services
        /\ components' = st.components
        /\ subChannels' = st.subChannels
        /\ serviceRepeatCount' = st.serviceRepeatCount
        /\ emitted' = st.emitted
        /\ call' = [call EXCEPT !.decoder = IF st.emitted # <<>> THEN "callback"
                                            ELSE "debounced"]
  /\ UNCHANGED <<lastOp, timeLastFCT0Frame>>
  /\ UNCHANGED threadFrame

\* the observer returns from onServiceDetected
ObserverReturns ==
  /\ call.decoder = "callback"
  /\ call' = [call EXCEPT !.decoder = "debounced"]
  /\ UNCHANGED <<services, components, subChannels, serviceRepeatCount, emitted, lastOp,
                 timeLastFCT0Frame>>
  /\ UNCHANGED threadFrame

\* the observer calls getService of the processor from onServiceDetected
ObserverQueries ==
  /\ call.decoder = "callback"
  /\ call' = [call EXCEPT !.decoder = "query"]
  /\ UNCHANGED <<services, components, subChannels, serviceRepeatCount, emitted, lastOp,
                 timeLastFCT0Frame>>
  /\ UNCHANGED threadFrame

\* the lock of getService: on a mutex that no thread holds the query returns
\* the service to the observer, which returns; on the std::mutex that the
\* calling thread holds the lock is undefined: the thread waits for itself
LockInObserver ==
  /\ call.decoder = "query"
  /\ call' = IF CanLock(call.owner)
             THEN [call EXCEPT !.decoder = "debounced",
                               !.answer = <<getService(services, call.entry.SId)>>]
             ELSE [call EXCEPT !.decoder = "blocked"]
  /\ UNCHANGED <<services, components, subChannels, serviceRepeatCount, emitted, lastOp,
                 timeLastFCT0Frame>>
  /\ UNCHANGED threadFrame

\* or the lock throws std::system_error (resource_deadlock_would_occur),
\* which nothing catches: it leaves the observer and processFIB, whose
\* lock_guard unlocks
RelockThrows ==
  /\ call.decoder = "query"
  /\ ~ CanLock(call.owner)
  /\ call' = [call EXCEPT !.decoder = "idle", !.owner = "none", !.threw = TRUE,
                          !.whole = QueryView]
  /\ UNCHANGED <<services, components, subChannels, serviceRepeatCount, emitted, lastOp,
                 timeLastFCT0Frame>>
  /\ UNCHANGED threadFrame

\* the component loop of HandleFIG0Extension2
BindEntry ==
  /\ call.decoder = "debounced"
  /\ LET st == bindComponents(Store, call.entry.SId, call.entry.descs, 0)
     IN components' = st.components
  /\ call' = [call EXCEPT !.decoder = "bound"]
  /\ UNCHANGED <<services, subChannels, serviceRepeatCount, emitted, lastOp,
                 timeLastFCT0Frame>>
  /\ UNCHANGED threadFrame

\* processFIB returns and its lock_guard unlocks
UnlockFIB ==
  /\ call.decoder = "bound"
  /\ call' = [call EXCEPT !.decoder = "idle", !.owner = "none", !.whole = QueryView]
  /\ UNCHANGED <<services, components, subChannels, serviceRepeatCount, emitted, lastOp,
                 timeLastFCT0Frame>>
  /\ UNCHANGED threadFrame

\* the decoding thread enters clearEnsemble and takes the lock
LockClear ==
  /\ call.decoder = "idle"
  /\ CanLock(call.owner)
  /\ call' = [call EXCEPT !.owner = "decoder", !.decoder = "clearing",
                          !.answer = <<>>, !.threw = FALSE]
  /\ lastOp' = [NoOp EXCEPT !.op = "clearEnsemble"]
  /\ emitted' = <<>>
  /\ UNCHANGED <<services, components, subChannels, serviceRepeatCount, timeLastFCT0Frame>>
  /\ UNCHANGED threadFrame

\* components.clear(); subChannels.resize(64);
ClearComponents ==
  /\ call.decoder = "clearing"
  /\ components' = <<>>
  /\ subChannels' = ResizeSubChannels(subChannels)
  /\ call' = [call EXCEPT !.decoder = "cleared"]
  /\ UNCHANGED <<services, serviceRepeatCount, emitted, lastOp, timeLastFCT0Frame>>
  /\ UNCHANGED threadFrame

\* services.clear(); serviceRepeatCount.clear(); and the two time stamps
ClearServices ==
  /\ call.decoder = "cleared"
  /\ services' = <<>>
  /\ serviceRepeatCount' = <<>>
  /\ timeLastFCT0Frame' = "clearEnsemble"
  /\ call' = [call EXCEPT !.decoder = "emptied"]
  /\ UNCHANGED <<components, subChannels, emitted, lastOp>>
  /\ UNCHANGED threadFrame

\* clearEnsemble returns and its lock_guard unlocks
UnlockClear ==
  /\ call.decoder = "emptied"
  /\ call' = [call EXCEPT !.decoder = "idle", !.owner = "none", !.whole = QueryView]
  /\ UNCHANGED <<services, components, subChannels, serviceRepeatCount, emitted, lastOp,
                 timeLastFCT0Frame>>
  /\ UNCHANGED threadFrame

\* the querying thread enters a query and takes the lock
LockQuery ==
  /\ call.reader = "idle"
  /\ CanLock(call.owner)
  /\ call' = [call EXCEPT !.owner = "reader", !.reader = "locked"]
  /\ UNCHANGED <<services, components, subChannels, serviceRepeatCount, emitted, lastOp,
                 timeLastFCT0Frame>>
  /\ UNCHANGED threadFrame

\* the query copies what it returns
CopyQuery ==
  /\ call.reader = "locked"
  /\ call' = [call EXCEPT !.reader = "copied", !.snapshot = QueryView]
  /\ UNCHANGED <<services, components, subChannels, serviceRepeatCount, emitted, lastOp,
                 timeLastFCT0Frame>>
  /\ UNCHANGED threadFrame

\* the query returns and its lock_guard unlocks
UnlockQuery ==
  /\ call.reader = "copied"
  /\ call' = [call EXCEPT !.reader = "idle", !.owner = "none"]
  /\ UNCHANGED <<services, components, subChannels, serviceRepeatCount, emitted, lastOp,
                 timeLastFCT0Frame>>
  /\ UNCHANGED threadFrame

\* one thread decodes FIBs with a FIG0/2 entry for a service of SIds and
\* clears the ensemble, its observer may query the processor from
\* onServiceDetected, and another thread queries; every thread that can take
\* a step takes one in the end
NextThreads ==
  \/ \E SId \in SIds : LockFIB(SId, <<AudioOn(0)>>)
  \/ DebounceEntry
  \/ ObserverReturns
  \/ ObserverQueries
  \/ LockInObserver
  \/ RelockThrows
  \/ BindEntry
  \/ UnlockFIB
  \/ LockClear
  \/ ClearComponents
  \/ ClearServices
  \/ UnlockClear
  \/ LockQuery
  \/ CopyQuery
  \/ UnlockQuery

SpecThreads == Init /\ [][NextThreads]_vars /\ WF_vars(NextThreads)


\* -------------------------------------------------- the HD Radio demux queue
\* hdstream::MAX_PACKET_QUEUE
MAX_PACKET_QUEUE == 200

\* hdstream::STREAM_ID_AUDIO
STREAM_ID_AUDIO == 1

\* the stream identifier of the packet that announces a stream change
DEMUX_SPECIALID_STREAMCHANGE == -11

\* the time base of the decode time stamps, in units per second
STREAM_TIME_BASE == 1000000

\* packet->duration of a packet of 2048 samples (1024 stereo frames) at
\* 44.1KHz, (count / 2.0 / 44100.0) * STREAM_TIME_BASE, to the microsecond
AudioDuration == 23220

\* the callbacks that queue a packet stop once m_dts has been advanced by
\* this many packets
MaxQueued == 202

\* demuxread takes this many packets from the queue
MaxReads == 3

\* the audio packet the callback queues at the decode time stamp dts
AudioPacket(dts) ==
  [streamid |-> STREAM_ID_AUDIO, dts |-> dts, duration |-> AudioDuration]

\* std::make_unique<demux_packet_t>() with streamid set to the stream change
StreamChangePacket ==
  [streamid |-> DEMUX_SPECIALID_STREAMCHANGE, dts |-> 0, duration |-> 0]

\* the events of nrsc5 the callback tells apart; an audio event carries its
\* program, a BER or MER event the value it reports
Nrsc5Events ==
  {[event |-> "NRSC5_EVENT_IQ", program |-> 0, value |-> 0],
   [event |-> "NRSC5_EVENT_AUDIO", program |-> 0, value |-> 0],
   [event |-> "NRSC5_EVENT_AUDIO", program |-> 1, value |-> 0],
   [event |-> "NRSC5_EVENT_LOST_SYNC", program |-> 0, value |-> 0],
   [event |-> "NRSC5_EVENT_BER", program |-> 0, value |-> 1],
   [event |-> "NRSC5_EVENT_MER", program |-> 0, value |-> 1],
   [event |-> "NRSC5_EVENT_SYNC", program |-> 0, value |-> 0]}

\* the branch of the callback that the event takes, before if(queued): the
\* members of hdstream behind it, and whether a packet was queued
QueueEvent(hd, event) ==
  LET enqueue == [hd EXCEPT !.queue = Append(hd.queue, AudioPacket(hd.dts)),
                            !.dts = hd.dts + AudioDuration]
  IN  IF event.event = "NRSC5_EVENT_IQ" /\ hd.analogfallback /\ ~ hd.hdaudio
        THEN [hd |-> enqueue, queued |-> TRUE]
      ELSE IF event.event = "NRSC5_EVENT_AUDIO"
        THEN IF hd.hdaudio
               THEN IF event.program = 0
                      THEN [hd |-> enqueue, queued |-> TRUE]
                      ELSE [hd |-> hd, queued |-> FALSE]
               ELSE [hd |-> [hd EXCEPT !.hdaudio = TRUE], queued |-> FALSE]
      ELSE IF event.event = "NRSC5_EVENT_LOST_SYNC"
        THEN [hd |-> [hd EXCEPT !.hdaudio = FALSE], queued |-> FALSE]
      ELSE IF event.event = "NRSC5_EVENT_BER"
        THEN [hd |-> [hd EXCEPT !.ber = event.value], queued |-> FALSE]
      ELSE IF event.event = "NRSC5_EVENT_MER"
        THEN [hd |-> [hd EXCEPT !.mer = event.value], queued |-> FALSE]
      ELSE [hd |-> hd, queued |-> FALSE]

\* if(queued) of the callback without the test of the size: the queue grows
\* without a limit
FlushQueue_Never(hd) == hd

\* if(m_queue.size() > MAX_PACKET_QUEUE): the queue is replaced by one that
\* holds a stream change packet, and m_dts is reset
FlushQueue(hd) ==
  IF Len(hd.queue) > MAX_PACKET_QUEUE
    THEN [hd EXCEPT !.queue = <<StreamChangePacket>>, !.dts = STREAM_TIME_BASE]
    ELSE hd

\* hdstream::nrsc5_callback as a function of the members
Nrsc5Callback(hd, event) ==
  LET r == QueueEvent(hd, event)
  IN  IF r.queued THEN FlushQueue(r.hd) ELSE r.hd

\* the variables of the FIB processor, which the stream does not touch
processorVars ==
  <<services, components, subChannels, serviceRepeatCount, elapsed, emitted, hist,
    ensembleId, ensembleEcc, ensembleLabel, timeLastFCT0Frame, dateTime,
    timeOffsetReceived>>

\* hdstream::nrsc5_callback, under m_queuelock from its first statement to its
\* return
nrsc5_callback(event) ==
  /\ call.hd.dts < STREAM_TIME_BASE + MaxQueued * AudioDuration
  /\ call' = [call EXCEPT !.hd = Nrsc5Callback(call.hd, event)]
  /\ lastOp' = [NoOp EXCEPT !.op = "nrsc5_callback", !.arg = event]
  /\ UNCHANGED processorVars

\* hdstream::demuxread with a packet in the queue: the front is popped under
\* m_queuelock
demuxread ==
  /\ call.hd.queue # <<>>
  /\ call.hd.reads < MaxReads
  /\ call' = [call EXCEPT !.hd.queue = Tail(call.hd.queue),
                          !.hd.reads = call.hd.reads + 1]
  /\ lastOp' = [NoOp EXCEPT !.op = "demuxread", !.arg = Head(call.hd.queue)]
  /\ UNCHANGED processorVars

\* the stream after its constructor, with the analog fallback of its
\* properties on or off
InitHD ==
  /\ services = <<>>
  /\ components = <<>>
  /\ subChannels = [i \in 0..(NumSubChannels - 1) |-> DefaultSubchannel]
  /\ serviceRepeatCount = <<>>
  /\ elapsed = 0
  /\ emitted = <<>>
  /\ lastOp = NoOp
  /\ hist = NoHistory
  /\ ensembleId = DefaultEnsembleId
  /\ ensembleEcc = DefaultEnsembleEcc
  /\ ensembleLabel = DefaultLabel
  /\ timeLastFCT0Frame = "clearEnsemble"
  /\ dateTime = DefaultDateTime
  /\ timeOffsetReceived = FALSE
  /\ \E fallback \in BOOLEAN :
       call = [NoCall EXCEPT !.hd.dts = STREAM_TIME_BASE,
                             !.hd.analogfallback = fallback]

NextHD ==
  \/ \E event \in Nrsc5Events : nrsc5_callback(event)
  \/ demuxread

SpecHD == InitHD /\ [][NextHD]_vars


\* ------------------------------------------- the database connection pool
\* nullptr as a handle
NullHandle == 0

\* no thread holds m_lock
NoThread == 0

\* the threads that use the pool
PoolThreads == {1, 2}

\* the poolsize arguments of the constructor
PoolSizes == {0, 1, 2}

\* the pool opens at most this many connections
MaxConnections == 3

\* open_database returns a handle that no open connection has
OpenDatabase(connections) == Len(connections) + 1

\* the constructor: one connection is opened and pooled, then one more for
\* every index from 1 below poolsize
PooledAtStart(poolsize) ==
  IF poolsize > 1 THEN [i \in 1..poolsize |-> i] ELSE <<1>>

\* a thread outside the pool that holds no handle
IdleThread == [pc |-> "idle", handle |-> NullHandle, holds |-> <<>>]

\* a lock of m_lock that is taken whoever holds it
LockPool_Always(owner) == TRUE

\* std::unique_lock<std::mutex> lock(m_lock) returns when no thread holds
\* m_lock
LockPool(owner) == owner = NoThread

\* the variables the pool does not touch
poolFrame ==
  <<services, components, subChannels, serviceRepeatCount, elapsed, emitted, hist,
    ensembleId, ensembleEcc, ensembleLabel, timeLastFCT0Frame, dateTime,
    timeOffsetReceived>>

\* thread t of the pool moves to pc with the local handle
PoolStep(t, op, pool) ==
  /\ call' = [call EXCEPT !.pool = pool]
  /\ lastOp' = [NoOp EXCEPT !.op = op, !.sid = t]
  /\ UNCHANGED poolFrame

\* connectionpool::acquire: thread t enters and takes m_lock
AcquireLock(t) ==
  /\ call.pool.thread[t].pc = "idle"
  /\ LockPool(call.pool.owner)
  /\ call.pool.queue # <<>> \/ Len(call.pool.connections) < MaxConnections
  /\ PoolStep(t, "acquire lock",
              [call.pool EXCEPT !.owner = t, !.thread[t].pc = "acquiring",
                                !.thread[t].handle = NullHandle])

\* if(m_queue.empty()): a connection is opened and recorded in m_connections
AcquireOpen(t) ==
  /\ call.pool.thread[t].pc = "acquiring"
  /\ call.pool.queue = <<>>
  /\ Len(call.pool.connections) < MaxConnections
  /\ LET handle == OpenDatabase(call.pool.connections)
     IN  PoolStep(t, "acquire open",
                  [call.pool EXCEPT !.connections = Append(@, handle),
                                    !.thread[t].pc = "returning",
                                    !.thread[t].handle = handle])

\* if(m_queue.empty()) with an open_database that throws: the exception
\* leaves acquire and the lock is given up
AcquireOpenThrows(t) ==
  /\ call.pool.thread[t].pc = "acquiring"
  /\ call.pool.queue = <<>>
  /\ call' = [call EXCEPT !.pool.owner = IF @ = t THEN NoThread ELSE @,
                          !.pool.thread[t].pc = "idle"]
  /\ lastOp' = [NoOp EXCEPT !.op = "acquire throws", !.sid = t, !.threw = TRUE]
  /\ UNCHANGED poolFrame

\* else { handle = m_queue.front(); ...
AcquireFront(t) ==
  /\ call.pool.thread[t].pc = "acquiring"
  /\ call.pool.queue # <<>>
  /\ PoolStep(t, "acquire front",
              [call.pool EXCEPT !.thread[t].pc = "fronted",
                                !.thread[t].handle = Head(call.pool.queue)])

\* ... m_queue.pop(); }  On an empty queue the pop is undefined; the model
\* leaves the queue empty
AcquirePop(t) ==
  /\ call.pool.thread[t].pc = "fronted"
  /\ PoolStep(t, "acquire pop",
              [call.pool EXCEPT !.queue = IF @ = <<>> THEN @ ELSE Tail(@),
                                !.thread[t].pc = "returning"])

\* return handle: the lock is given up and the caller holds the handle
AcquireReturn(t) ==
  /\ call.pool.thread[t].pc = "returning"
  /\ PoolStep(t, "acquire",
              [call.pool EXCEPT !.owner = IF @ = t THEN NoThread ELSE @,
                                !.thread[t].pc = "idle",
                                !.thread[t].holds = Append(@, call.pool.thread[t].handle)])

\* connectionpool::release: thread t enters with the i-th handle it holds,
\* which it gives up, and takes m_lock
ReleaseLock(t, i) ==
  /\ call.pool.thread[t].pc = "idle"
  /\ i \in DOMAIN call.pool.thread[t].holds
  /\ LockPool(call.pool.owner)
  /\ LET holds == call.pool.thread[t].holds
     IN  PoolStep(t, "release lock",
                  [call.pool EXCEPT !.owner = t, !.thread[t].pc = "releasing",
                                    !.thread[t].handle = holds[i],
                                    !.thread[t].holds =
                                      SubSeq(holds, 1, i - 1) \o SubSeq(holds, i + 1, Len(holds))])

\* connectionpool::release(nullptr): std::invalid_argument under the lock
ReleaseNull(t) ==
  /\ call.pool.thread[t].pc = "idle"
  /\ LockPool(call.pool.owner)
  /\ call' = call
  /\ lastOp' = [NoOp EXCEPT !.op = "release throws", !.sid = t, !.threw = TRUE]
  /\ UNCHANGED poolFrame

\* m_queue.push(handle)
ReleasePush(t) ==
  /\ call.pool.thread[t].pc = "releasing"
  /\ PoolStep(t, "release push",
              [call.pool EXCEPT !.queue = Append(@, call.pool.thread[t].handle),
                                !.thread[t].pc = "released"])

\* release returns and the lock is given up
ReleaseReturn(t) ==
  /\ call.pool.thread[t].pc = "released"
  /\ PoolStep(t, "release",
              [call.pool EXCEPT !.owner = IF @ = t THEN NoThread ELSE @,
                                !.thread[t].pc = "idle",
                                !.thread[t].handle = NullHandle])

\* the pool after its constructor
InitPool ==
  /\ services = <<>>
  /\ components = <<>>
  /\ subChannels = [i \in 0..(NumSubChannels - 1) |-> DefaultSubchannel]
  /\ serviceRepeatCount = <<>>
  /\ elapsed = 0
  /\ emitted = <<>>
  /\ lastOp = NoOp
  /\ hist = NoHistory
  /\ ensembleId = DefaultEnsembleId
  /\ ensembleEcc = DefaultEnsembleEcc
  /\ ensembleLabel = DefaultLabel
  /\ timeLastFCT0Frame = "clearEnsemble"
  /\ dateTime = DefaultDateTime
  /\ timeOffsetReceived = FALSE
  /\ \E poolsize \in PoolSizes :
       call = [NoCall EXCEPT !.pool = [connections |-> PooledAtStart(poolsize),
                                       queue |-> PooledAtStart(poolsize),
                                       owner |-> NoThread,
                                       thread |-> [t \in PoolThreads |-> IdleThread]]]

NextPool ==
  \E t \in PoolThreads :
    \/ AcquireLock(t)
    \/ AcquireOpen(t)
    \/ AcquireOpenThrows(t)
    \/ AcquireFront(t)
    \/ AcquirePop(t)
    \/ AcquireReturn(t)
    \/ \E i \in 1..MaxConnections : ReleaseLock(t, i)
    \/ ReleaseNull(t)
    \/ ReleasePush(t)
    \/ ReleaseReturn(t)

SpecPool == InitPool /\ [][NextPool]_vars

\* ------------------------------------------------------------------- claims
\* a step that is HandleFIG0Extension2 on a service entry for SId
Sighting(SId) == \E descs \in AudioLists : FIG0Extension2(SId, descs)

Tracked(map, s) == s \in DOMAIN map

ComponentsOf(comps, s) == SelectSeq(comps, LAMBDA c : c.SId = s)

\* C1: starting from a service id that is not tracked, the first sighting sends
\* no onServiceDetected for it; a second sighting with no decay pass in between
\* appends the service to the service vector and sends onServiceDetected(SId)
\* exactly once; a further sighting, with no decay pass, of a service that
\* exists adds no row and sends nothing.
C1_ConfirmedAtSecondSighting ==
  [][\A s \in SIds : Sighting(s) =>
       /\ ~ Tracked(serviceRepeatCount, s) => Detected(s) \notin Range(emitted')
       /\ (hist[s].fresh /\ ~ DecayDue) =>
            /\ services' = Append(services, NewService(s))
            /\ emitted' = <<Detected(s)>>
       /\ (findServiceId(services, s) /\ ~ hist[s].fresh /\ ~ DecayDue) =>
            /\ services' = services
            /\ emitted' = <<>>]_vars

\* C2: a service id that was sighted once, and not again while two decay passes
\* ran, is no longer in serviceRepeatCount; a service id sighted once only is
\* not in the service vector and no onServiceDetected was sent for it.
C2_LoneSightingDropped ==
  \A s \in SIds :
    /\ hist[s].n = 1 =>
         /\ ~ findServiceId(services, s)
         /\ ~ hist[s].detected
    /\ (hist[s].n = 1 /\ hist[s].d >= 2) => ~ Tracked(serviceRepeatCount, s)

\* two decay passes have run since the only sighting of a service id
C2_Witness ==
  \E s \in SIds : hist[s].n = 1 /\ hist[s].d >= 2 /\ ~ Tracked(serviceRepeatCount, s)

\* a step that is HandleFIG0Extension2 with the decay pass due
DecayStep == DecayDue /\ \E SId \in SIds : Sighting(SId)

\* C3, as claimed: a counter that a decay pass decrements to exactly zero has
\* its entry removed from serviceRepeatCount, and its service dropped, in that
\* same decay pass.
C3_ErasedWhenReachingZero ==
  [][DecayStep =>
       \A s \in SIds \ {lastOp'.sid} :
         (Tracked(serviceRepeatCount, s) /\ serviceRepeatCount[s] = 1) =>
           /\ ~ Tracked(serviceRepeatCount', s)
           /\ ~ findServiceId(services', s)]_vars

\* C3, amended: a counter that a decay pass decrements to exactly zero stays in
\* serviceRepeatCount, with the value 0, in that pass; an entry that a decay
\* pass finds at zero is removed from serviceRepeatCount in that pass.
C3_ErasedWhenFoundAtZero ==
  [][DecayStep =>
       \A s \in SIds \ {lastOp'.sid} :
         /\ (Tracked(serviceRepeatCount, s) /\ serviceRepeatCount[s] = 1) =>
              (Tracked(serviceRepeatCount', s) /\ serviceRepeatCount'[s] = 0)
         /\ (Tracked(serviceRepeatCount, s) /\ serviceRepeatCount[s] = 0) =>
              ~ Tracked(serviceRepeatCount', s)]_vars

\* a decay pass has run and left an entry, of a service id that the call did
\* not sight, at zero
C3_Witness ==
  /\ lastOp.op = "FIG0/2"
  /\ lastOp.decay
  /\ \E s \in SIds \ {lastOp.sid} :
       Tracked(serviceRepeatCount, s) /\ serviceRepeatCount[s] = 0

\* the service ids whose entries the decay pass of this step erases
ErasedByDecay == {s \in DOMAIN serviceRepeatCount : serviceRepeatCount[s] = 0}

\* C4: when a decay pass erases the entry of a service id, the service of that
\* id and its components are gone after the call, and the services of the ids
\* whose entries were not erased, and their components, are still there.
C4_DecayDropsTheEntrysService ==
  [][DecayStep =>
       /\ \A s \in ErasedByDecay :
            /\ ~ findServiceId(services', s)
            /\ ComponentsOf(components', s) = <<>>
       /\ \A s \in SIds \ ErasedByDecay :
            /\ findServiceId(services, s) => findServiceId(services', s)
            /\ \A c \in Range(components) : c.SId = s => c \in Range(components')]_vars

\* The debounce filter alone: time passes and FIG0/2 entries without components
\* arrive
NextLive ==
  \/ Tick
  \/ \E SId \in SIds : FIG0Extension2(SId, <<>>)

\* Time keeps passing and FIG0/2 entries for service id 0 keep arriving, so
\* that decay passes keep running
SpecLive ==
  /\ Init
  /\ [][NextLive]_vars
  /\ WF_vars(Tick)
  /\ WF_vars(FIG0Extension2(0, <<>>))

\* the last handler call was HandleFIG0Extension2 on an entry for s
LastSighted(s) == lastOp.op = "FIG0/2" /\ lastOp.sid = s

\* C5: when FIG0/2 entries for service id 0 keep arriving across the seconds
\* and, from some moment on, none arrives for service id 1, service 1 is
\* eventually absent from the service vector (the value of getServiceList),
\* and stays absent.
C5_UnsightedServiceDestroyed ==
  (<>[] ~ LastSighted(1)) => (<>[] ~ findServiceId(services, 1))

\* C6: the service vector holds at most one entry per serviceId.
C6_UniqueServiceIds ==
  \A i, j \in DOMAIN services : services[i].serviceId = services[j].serviceId => i = j

\* an entry for a service that exists, with a counter past the threshold, was
\* handled again
C6_Witness ==
  \E s \in SIds :
    /\ LastSighted(s)
    /\ findServiceId(services, s)
    /\ Tracked(serviceRepeatCount, s) /\ serviceRepeatCount[s] > ConfirmCount

\* C7: every counter of serviceRepeatCount is in 0..4, and the counter of the
\* id that the last FIG0/2 entry carried is at least 1.
C7_CountersInRange ==
  /\ \A s \in DOMAIN serviceRepeatCount :
       serviceRepeatCount[s] >= 0 /\ serviceRepeatCount[s] <= 4
  /\ \A s \in SIds : LastSighted(s) =>
       (Tracked(serviceRepeatCount, s) /\ serviceRepeatCount[s] >= 1)

\* a counter at 4 was sighted again while a decay pass had left another at 0
C7_Witness ==
  \E s, u \in DOMAIN serviceRepeatCount :
    /\ LastSighted(s)
    /\ hist[s].n >= 2
    /\ serviceRepeatCount[s] = 4
    /\ serviceRepeatCount[u] = 0

\* C8: in the handling of one FIG0/2 entry the decay pass, when due, runs
\* before the increment: a counter found above zero is decremented and then
\* incremented, so it keeps its value, and an id that is absent or found at
\* zero ends at 1. The confirmation reads the incremented counter: a service
\* that does not exist before the call exists after it, and is notified,
\* exactly when the counter after the call is at least 2.
C8_DecayThenIncrementThenConfirm ==
  [][\A s \in SIds : Sighting(s) =>
       LET old == RepeatCountAt(serviceRepeatCount, s)
           new == serviceRepeatCount'[s]
       IN /\ Tracked(serviceRepeatCount', s)
          /\ DecayDue => new = (IF old > 0 THEN old ELSE 1)
          /\ ~ DecayDue => new = (IF old < 4 THEN old + 1 ELSE 4)
          /\ ~ findServiceId(services, s) =>
               /\ findServiceId(services', s) <=> new >= 2
               /\ Detected(s) \in Range(emitted') <=> new >= 2]_vars

\* a decay pass and then the increment have acted on a counter that was at 4
C8_Witness ==
  \E s \in SIds :
    /\ LastSighted(s)
    /\ lastOp.decay
    /\ serviceRepeatCount[s] = 4

\* C9: after dropService(SId) the service SId is not in the service vector, no
\* component has that SId, and every sub channel slot that carries an id is
\* referred to by a remaining component.
C9_DropServiceCascade ==
  lastOp.op = "dropService" =>
    /\ \A i \in DOMAIN services : services[i].serviceId # lastOp.sid
    /\ \A i \in DOMAIN components : components[i].SId # lastOp.sid
    /\ \A i \in DOMAIN subChannels :
         subChannels[i].subChId # -1 =>
           \E k \in DOMAIN components : components[k].subchannelId = subChannels[i].subChId

\* dropService has erased components and has marked a sub channel as not in use
C9_Witness ==
  /\ lastOp.op = "dropService"
  /\ lastOp.removed # {}
  /\ lastOp.orphaned # {}

\* C10: dropService(SId) leaves the other services, in their order, and the
\* components of the other services, in their order, as they are, and a sub
\* channel slot that carries an id and is referred to by a remaining component
\* is unchanged.
C10_DropServiceFrame ==
  [][\A s \in SIds : DropService(s) =>
       /\ services' = SelectSeq(services, LAMBDA v : v.serviceId # s)
       /\ components' = SelectSeq(components, LAMBDA c : c.SId # s)
       /\ \A i \in DOMAIN subChannels :
            (/\ subChannels[i].subChId # -1
             /\ \E k \in DOMAIN components' :
                  components'[k].subchannelId = subChannels[i].subChId)
            => subChannels'[i] = subChannels[i]]_vars

\* dropService has erased a component whose sub channel a remaining component
\* of another service refers to, and the slot still carries its id
C10_Witness ==
  /\ lastOp.op = "dropService"
  /\ \E k \in DOMAIN components :
       /\ components[k].subchannelId \in lastOp.removed
       /\ components[k].subchannelId \in DOMAIN subChannels
       /\ subChannels[components[k].subchannelId].subChId = components[k].subchannelId

\* C11: every stored component's SId is the id of a service in the service
\* vector: an announcement for a service that does not exist stores no
\* component, and no drop leaves a component of the dropped service behind.
C11_ComponentsHaveServices ==
  \A c \in Range(components) : findServiceId(services, c.SId)

\* a FIG0/2 entry that announced components for a service that does not
\* exist was handled, in a call whose decay pass dropped a service with
\* components
C11_Witness ==
  /\ lastOp.op = "FIG0/2"
  /\ lastOp.descs # <<>>
  /\ ~ findServiceId(services, lastOp.sid)
  /\ lastOp.removed # {}

\* C12: the component vector holds at most one component per (SId,
\* componentNr), also when a component number is announced again with another
\* transport mode.
C12_OneComponentPerNumber ==
  \A i, j \in DOMAIN components :
    (components[i].SId = components[j].SId
       /\ components[i].componentNr = components[j].componentNr) => i = j

\* a FIG0/2 entry announced a component number of a stored component with
\* another transport mode
C12_Witness ==
  /\ lastOp.op = "FIG0/2"
  /\ \E k \in DOMAIN lastOp.descs, c \in Range(components) :
       /\ c.SId = lastOp.sid
       /\ c.componentNr = k - 1
       /\ c.TMid # lastOp.descs[k].TMid

\* a step that is HandleFIG0Extension2 on the service entry (SId, descs)
Announcement(SId, descs) == FIG0Extension2(SId, descs)

\* C13: a FIG0/2 entry that announces, as audio or stream data, a component
\* number the service already has adds no row, and the stored component then
\* carries the announced sub channel, PS flag and type, under its SId and
\* componentNr.
C13_AnnouncementUpdatesComponent ==
  [][\A s \in SIds, descs \in BindLists :
       (Announcement(s, descs) /\ ~ DecayDue) =>
         \A k \in DOMAIN descs, i \in DOMAIN components :
           (/\ components[i].SId = s
            /\ components[i].componentNr = k - 1
            /\ descs[k].TMid \in {TMidAudio, TMidStream}) =>
             /\ Len(components') = Len(components)
             /\ components'[i].SId = s
             /\ components'[i].componentNr = k - 1
             /\ components'[i].subchannelId = descs[k].SubChId
             /\ components'[i].PS_flag = descs[k].PS_flag
             /\ components'[i].Ty = descs[k].Ty]_vars

\* C14: the sub channel table has the 64 slots 0..63 before and after every
\* call of FIG0/1, FIG0/5, FIG0/14, dropService and clearEnsemble, and a slot
\* that carried an id and no longer does differs from what it was in the id
\* only, which is the sentinel -1.
C14_TableKeepsItsSlots ==
  [][/\ DOMAIN subChannels = 0..63
     /\ DOMAIN subChannels' = 0..63
     /\ \A i \in DOMAIN subChannels :
          (subChannels[i].subChId # -1 /\ subChannels'[i].subChId # subChannels[i].subChId)
          => subChannels'[i] = [subChannels[i] EXCEPT !.subChId = -1]]_vars

\* dropService has marked a slot that FIG0/1, FIG0/5 and FIG0/14 had written
\* as not in use
C14_Witness ==
  /\ lastOp.op = "dropService"
  /\ \E i \in lastOp.orphaned :
       /\ subChannels[i].subChId = -1
       /\ subChannels[i].startAddr \in StartAddrs
       /\ subChannels[i].language \in Languages
       /\ subChannels[i].fecScheme \in FecSchemes

\* C15: after clearEnsemble the sub channel table has 64 slots and every one
\* of them carries the sentinel id -1.
C15_ClearedTableIsInvalid ==
  lastOp.op = "clearEnsemble" =>
    /\ Cardinality(DOMAIN subChannels) = 64
    /\ \A i \in DOMAIN subChannels : subChannels[i].subChId = -1

\* C16: after clearEnsemble the service vector is empty, no component is
\* stored (getComponents finds none for any service), serviceRepeatCount is
\* empty and the time since timeLastServiceDecrement is zero; a service that
\* exists has been sighted at least twice since the last clearEnsemble.
C16_ClearEnsembleWipesServices ==
  [][/\ clearEnsemble =>
          /\ services' = <<>>
          /\ \A s \in SIds : ComponentsOf(components', s) = <<>>
          /\ components' = <<>>
          /\ serviceRepeatCount' = <<>>
          /\ elapsed' = 0
     /\ \A s \in SIds : findServiceId(services', s) => hist'[s].n >= 2]_vars

\* clearEnsemble was called on a processor that held components, hence
\* services and their counters
C16_Witness ==
  /\ lastOp.op = "clearEnsemble"
  /\ lastOp.removed # {}
  /\ services = <<>>
  /\ serviceRepeatCount = <<>>

\* C17: after clearEnsemble the ensemble id, the extended country code and
\* the ensemble label, with its buffered FIG2 segments, carry no value that a
\* FIG0/0, FIG0/9, FIG1/0 or FIG2/0 of the ensemble before the call set.
C17_ClearEnsembleResetsEnsemble ==
  lastOp.op = "clearEnsemble" =>
    /\ ensembleId \notin EIds
    /\ ensembleEcc \notin Eccs
    /\ ensembleLabel.fig1_label \notin Fig1Labels
    /\ ensembleLabel.segments = <<>>

\* C18: a FIG0/0 stores the ensemble id it carries, and sends
\* onNewEnsemble(id), once, exactly when that id differs from the stored one;
\* a FIG0/0 that follows a FIG0/0 with the same id sends nothing.
C18_NewEnsembleWhenIdChanges ==
  [][\A eId \in EIds, lowpart \in {0, 1} : FIG0Extension0(eId, lowpart) =>
       /\ ensembleId' = eId
       /\ emitted' = (IF ensembleId # eId THEN <<NewEnsemble(eId)>> ELSE <<>>)
       /\ (lastOp.op = "FIG0/0" /\ lastOp.sid = eId) => emitted' = <<>>]_vars

\* a FIG0/0 that carried the stored id was handled, and sent nothing
C18_Witness ==
  /\ lastOp.op = "FIG0/0"
  /\ lastOp.sid = ensembleId
  /\ emitted = <<>>

\* the byte offset at which the FIG k of a FIB starts: each FIG before it
\* takes its header byte and the Length bytes the header declares
RECURSIVE ByteOffset(_, _)
ByteOffset(fib, k) ==
  IF k = 1 THEN 0 ELSE ByteOffset(fib, k - 1) + fib[k - 1].Length + 1

\* the FIG k starts within the 30 bytes and no FIG of type 6 or 7 is before it
MetByDispatcher(fib, k) ==
  /\ ByteOffset(fib, k) < 30
  /\ \A j \in 1..(k - 1) : fib[j].FIGtype \notin {6, 7}

\* the ensemble level members, which are what the FIGs of FIBs can change
EnsembleState(id, ecc, label, time, offset, received) ==
  <<id, ecc, label, time, offset, received>>

\* C19: processFIB dispatches no FIG located after a FIG of type 6 or 7 that
\* it met, and the members and the notifications after the call are those of
\* the call on the FIB cut after that FIG; every call, whatever the call
\* before it met, starts at the first FIG and dispatches exactly the FIGs that
\* start within the 30 bytes and have no FIG of type 6 or 7 before them.
C19_EndMarkerEndsTheFIB ==
  [][LET fib == lastOp'.fib
     IN (lastOp'.op = "processFIB" /\ ProcessFIB(fib)) =>
          /\ \A t \in EndMarkers(fib), k \in DOMAIN fib :
               (MetByDispatcher(fib, t) /\ k > t) => k \notin Range(lastOp'.decoded)
          /\ \A t \in EndMarkers(fib) :
               MetByDispatcher(fib, t) =>
                 LET cut == processFIB(Processor, SubSeq(fib, 1, t))
                 IN /\ EnsembleState(ensembleId', ensembleEcc', ensembleLabel',
                                     timeLastFCT0Frame', dateTime', timeOffsetReceived')
                       = EnsembleState(cut.ensembleId, cut.ensembleEcc, cut.ensembleLabel,
                                       cut.timeLastFCT0Frame, cut.dateTime,
                                       cut.timeOffsetReceived)
                    /\ emitted' = cut.emitted
          /\ lastOp'.decoded # <<>>
          /\ lastOp'.decoded[1] = 1
          /\ Range(lastOp'.decoded) = {k \in DOMAIN fib : MetByDispatcher(fib, k)}]_vars

\* processFIB has met a FIG of type 6 or 7 that was followed, in the FIB, by
\* a FIG0/0 with an ensemble id other than the stored one
C19_Witness ==
  /\ lastOp.op = "processFIB"
  /\ \E eId \in SkippedIds(lastOp.fib) : eId # ensembleId
  /\ ensembleId \in EIds

\* C20: processFIB terminates for every FIB content.  Each round of its loop
\* adds at least one byte to processedBytes and the loop is left once 30 bytes
\* are consumed; each record handled by the loop of a FIG0 handler leaves the
\* offset of that loop strictly larger than it found it, within the width of
\* the offset; and the call that was started returns or is left by the
\* exception of process_FIG2.
C20_ProcessFIBTerminates ==
  /\ [][/\ (call.pc = "records" /\ call'.pc = "records")
             => (call'.records = call.records + 1 /\ call'.used > call.used)
        /\ (call.pc \in {"fig", "records"} /\ call'.pc \in {"fig", "done"}
              /\ ~call'.endMarker /\ ~call'.threw)
             => call'.processedBytes >= call.processedBytes + 1
        /\ call'.pc = "fig" => call'.processedBytes < FIBPayload
        /\ (call'.pc = "done" /\ ~call'.endMarker /\ ~call'.threw)
             => call'.processedBytes >= FIBPayload]_vars
  /\ <>(call.pc = "done")

\* a record loop has handled two records at least and has come to its end, in
\* a FIG that is not the first of the FIB
C20_Witness ==
  /\ call.pc = "records"
  /\ call.records >= 2
  /\ ~LoopCondition(call.extension, call.Length, call.used)
  /\ call.processedBytes > 0

\* the members of the processor and the notifications of the last call
processorState ==
  <<services, components, subChannels, serviceRepeatCount, ensembleId, ensembleEcc,
    ensembleLabel, timeLastFCT0Frame, dateTime, timeOffsetReceived, emitted>>

\* the same of a processor that processFIB has worked on
StateOf(st) ==
  <<st.services, st.components, st.subChannels, st.serviceRepeatCount, st.ensembleId,
    st.ensembleEcc, st.ensembleLabel, st.timeLastFCT0Frame, st.dateTime,
    st.timeOffsetReceived, st.emitted>>

\* the FIB without its FIG k
WithoutFIG(fib, k) == SubSeq(fib, 1, k - 1) \o SubSeq(fib, k + 1, Len(fib))

\* the FIGs of type 3, 4 and 5 of a FIB that end before the 30 bytes do, so
\* that a FIG of the FIB follows them
SkippedFIGs(fib) ==
  {k \in DOMAIN fib : /\ fib[k].FIGtype \in {3, 4, 5}
                      /\ ByteOffset(fib, k) + fib[k].Length + 1 < FIBPayload}

\* C21: a FIG of type 3, 4 or 5 changes no member and sends no notification,
\* and the dispatcher goes on at the byte after its declared length: the
\* members and the notifications after the call are those of the call on the
\* FIB without that FIG, and the FIG behind it is dispatched.
C21_UnsupportedFIGIsSkipped ==
  [][LET fib == lastOp'.fib
     IN (lastOp'.op = "processFIB" /\ ProcessFIB(fib)) =>
          \A k \in SkippedFIGs(fib) :
            /\ processorState' = StateOf(processFIB(Processor, WithoutFIG(fib, k)))
            /\ (k \in Range(lastOp'.decoded) /\ ~lastOp'.threw)
                 => k + 1 \in Range(lastOp'.decoded)]_vars

\* processFIB has met a FIG of type 3, 4 or 5 between two FIG0/0 of different
\* ensembles, and the ensemble of the one behind it is the stored one
C21_Witness ==
  /\ lastOp.op = "processFIB"
  /\ \E k \in SkippedFIGs(lastOp.fib) :
       /\ k > 1
       /\ {k - 1, k, k + 1} \subseteq Range(lastOp.decoded)
       /\ lastOp.fib[k - 1] = Fig00(1)
       /\ lastOp.fib[k + 1] = Fig00(2)
       /\ ensembleId = 2
       /\ emitted = <<NewEnsemble(1), NewEnsemble(2)>>

\* the FIG k has a handler that reads its fields, starts within the 30 bytes
\* of the FIB, and its declared length ends behind them
ReachesPastPayload(fib, k) ==
  /\ fib[k].FIGtype \in {0, 1, 2}
  /\ ByteOffset(fib, k) < FIBPayload
  /\ ByteOffset(fib, k) + fib[k].Length + 1 > FIBPayload

\* C22: when processFIB meets a FIG whose declared length reaches past the 30
\* bytes of the FIB, the decoding of the FIB ends there: the FIG is not handed
\* to its handler, and the members and the notifications after the call are
\* those of the call on the FIB cut before that FIG.
C22_NothingPastThePayloadIsUsed ==
  [][LET fib == lastOp'.fib
     IN (lastOp'.op = "processFIB" /\ ProcessFIB(fib)) =>
          \A k \in DOMAIN fib :
            (/\ MetByDispatcher(fib, k)
             /\ ReachesPastPayload(fib, k)
             /\ \A j \in 1 .. (k - 1) : ~ReachesPastPayload(fib, j))
            => /\ ~lastOp'.threw => k \notin Range(lastOp'.decoded)
               /\ processorState'
                    = StateOf(processFIB(Processor,
                                         Append(SubSeq(fib, 1, k - 1), EndMarker)))]_vars

\* C23: a FIG2 whose first segment is too short for its header does not make
\* the call fail, and the FIGs behind it are processed: no exception leaves
\* processFIB, and every FIG that starts within the 30 bytes with no FIG of
\* type 6 or 7 before it is dispatched.
C23_ShortFIG2DoesNotEndTheFIB ==
  [][LET fib == lastOp'.fib
     IN (lastOp'.op = "processFIB" /\ ProcessFIB(fib)) =>
          /\ ~lastOp'.threw
          /\ Range(lastOp'.decoded) = {k \in DOMAIN fib : MetByDispatcher(fib, k)}]_vars

\* what a FIG2 update works on: the buffered segments, the segment count, the
\* character set and the toggle flag of a label
Fig2State(label) ==
  <<label.segments, label.segment_count, label.extended_label_charset, label.toggle_flag>>

\* C24: a FIG2 label update that fails the check of the header length is
\* skipped as a whole: the buffered segments, the segment count, the character
\* set and the toggle flag of the label are after it what they were before.
C24_FailedFIG2UpdateIsSkipped ==
  [][(lastOp'.op = "FIG2/0" /\ lastOp'.threw)
       => Fig2State(ensembleLabel') = Fig2State(ensembleLabel)]_vars

\* the bytes handle_ext_label_data_field buffers for a data field: segment 0
\* without its header, the other segments whole
BufferedBytes(figdata, segment_index, rfu) ==
  IF segment_index = 0 THEN BytesFrom(figdata, IF rfu = 0 THEN 3 ELSE 1) ELSE figdata

\* C25: a FIG2 segment that is stored for the label, with a toggle flag other
\* than the one of the label, leaves the new segment as the only buffered one;
\* one with the toggle flag of the label leaves every other buffered segment
\* as it was and stores the new one at its index.
C25_ToggleDiscardsBufferedSegments ==
  [][LET a == lastOp'.arg
     IN (/\ lastOp'.op = "FIG2/0"
         /\ ~lastOp'.threw
         /\ a.eid = ensembleId
         /\ FIG2Extension0(a.figlen, a.toggle_flag, a.segment_index, a.rfu, a.eid,
                           a.figdata))
        => LET stored == BufferedBytes(a.figdata, a.segment_index, a.rfu)
               before == ensembleLabel.segments
               after  == ensembleLabel'.segments
           IN /\ ensembleLabel'.toggle_flag = a.toggle_flag
              /\ a.segment_index \in DOMAIN after
              /\ after[a.segment_index] = stored
              /\ IF ensembleLabel.toggle_flag # a.toggle_flag
                 THEN DOMAIN after = {a.segment_index}
                 ELSE /\ DOMAIN after = DOMAIN before \cup {a.segment_index}
                      /\ \A i \in DOMAIN before \ {a.segment_index} :
                           after[i] = before[i]]_vars

\* segment 1 of version 1 is the only buffered segment, stored by the last
\* call, and the segment count is still the one that segment 0 of version 0
\* declared: the toggle flag of the label was 0 before
C25_Witness ==
  /\ lastOp.op = "FIG2/0"
  /\ ~lastOp.threw
  /\ lastOp.arg.toggle_flag = 1
  /\ lastOp.arg.segment_index = 1
  /\ ensembleLabel.toggle_flag = 1
  /\ DOMAIN ensembleLabel.segments = {1}
  /\ ensembleLabel.segment_count = SegmentsOf(0)

\* C26: whatever the order in which the segments of a label version arrive,
\* the buffer holds segments of that version only, each at its index with its
\* bytes, and once all of them have arrived it holds exactly the indices
\* 0 .. N-1 and the segment count is N.
C26_SegmentOrderDoesNotMatter ==
  LET t == ensembleLabel.toggle_flag
      N == SegmentsOf(t)
  IN t \in {0, 1} =>
       /\ DOMAIN ensembleLabel.segments \subseteq 0 .. (N - 1)
       /\ \A i \in DOMAIN ensembleLabel.segments :
            ensembleLabel.segments[i] = BufferedBytes(SegmentField(t, i), i, 0)
       /\ DOMAIN ensembleLabel.segments = 0 .. (N - 1)
            => ensembleLabel.segment_count = N

\* all four segments of version 1 are buffered, and segment 0 was the last
\* to arrive
C26_Witness ==
  /\ lastOp.op = "FIG2/0"
  /\ ~lastOp.threw
  /\ lastOp.arg.toggle_flag = 1
  /\ lastOp.arg.segment_index = 0
  /\ ensembleLabel.toggle_flag = 1
  /\ DOMAIN ensembleLabel.segments = 0 .. (SegmentsOf(1) - 1)
  /\ ensembleLabel.segment_count = SegmentsOf(1)

\* the short label of a DabLabel: the text, the character flag field and the
\* character set
Fig1State(label) ==
  [fig1_label |-> label.fig1_label, fig1_flag |-> label.fig1_flag,
   charset |-> label.charset]

\* the short label a FIG1 with the fields f carries
Fig1Carried(f) ==
  [fig1_label |-> CString(f.chars), fig1_flag |-> f.flag, charset |-> f.charSet]

\* the labels of the ensemble, of the services and of the components in st
LabelsOf(st) ==
  [ensembleLabel |-> st.ensembleLabel,
   services |-> [i \in DOMAIN st.services |-> st.services[i].serviceLabel],
   components |-> [i \in DOMAIN st.components |-> st.components[i].componentLabel]]

\* C27: a FIG1 without the other-ensemble bit for the stored ensemble id
\* (extension 0) or for a stored service (extensions 1 and 5) leaves the text,
\* the character flag field and the character set of the target equal to
\* the ones the FIG carries, whatever they were, and process_FIG1 on the same
\* FIG once more leaves every label as it is after the first call.
C27_FIG1ReplacesTheLabel ==
  [][LET f == lastOp'.arg
     IN (lastOp'.op = "FIG1" /\ f.oe = 0 /\ FIG1(f))
        => /\ (f.extension = 0 /\ f.id = ensembleId)
                => Fig1State(ensembleLabel') = Fig1Carried(f)
           /\ f.extension \in {1, 5}
                => \A i \in DOMAIN services :
                     services[i].serviceId = f.id
                       => /\ i \in DOMAIN services'
                          /\ Fig1State(services'[i].serviceLabel) = Fig1Carried(f)
           /\ LabelsOf(DecodeFIG1(LabelStore', f.charSet, f.oe, f.extension, f.id,
                                  f.SCidS, f.chars, f.flag))
                = LabelsOf(LabelStore')]_vars

\* a FIG1/1 has given service 1 the label with the 0 in it, in UTF-8, and
\* the ensemble has the other label from a FIG1/0
C27_Witness ==
  /\ lastOp.op = "FIG1"
  /\ lastOp.arg.oe = 0
  /\ lastOp.arg.extension = 1
  /\ lastOp.arg.chars = RadioLabel
  /\ \E i \in DOMAIN services :
       /\ services[i].serviceId = lastOp.arg.id
       /\ services[i].serviceLabel.fig1_label = CString(RadioLabel)
       /\ services[i].serviceLabel.charset = 15
  /\ ensembleLabel.fig1_label = RadioOneLabel

\* C28: a FIG1 with the other-ensemble bit, of any of the 8 extensions,
\* leaves the label of the ensemble, the services with their labels and the
\* components with their labels as they are and sends nothing.
C28_OtherEnsembleFIG1IsIgnored ==
  [][(lastOp'.op = "FIG1" /\ lastOp'.arg.oe = 1)
       => /\ ensembleLabel' = ensembleLabel
          /\ services' = services
          /\ components' = components
          /\ emitted' = <<>>]_vars

\* a FIG1/1 with the other-ensemble bit and the label with the 0 in it was
\* processed for service 1, which still has the other label
C28_Witness ==
  /\ lastOp.op = "FIG1"
  /\ lastOp.arg.oe = 1
  /\ lastOp.arg.extension = 1
  /\ lastOp.arg.chars = RadioLabel
  /\ emitted = <<>>
  /\ \E i \in DOMAIN services :
       /\ services[i].serviceId = lastOp.arg.id
       /\ services[i].serviceLabel.fig1_label = RadioOneLabel

\* C29: no call sends onDateTimeUpdate before a FIG0/9 has been handled (the
\* extended country code of a FIG0/9 is stored): a FIG0/10 before it stores
\* the date and the time and sends nothing, a FIG0/10 after it sends one
\* onDateTimeUpdate with the stored date and time, and no other call sends
\* one.
C29_DateTimeSentAfterFIG09 ==
  [][LET a == lastOp'.arg
         sent == {i \in DOMAIN emitted' : emitted'[i].kind = "onDateTimeUpdate"}
     IN IF lastOp'.op = "FIG0/10"
        THEN /\ FIG0Extension10(a.mjd, a.utc, a.hour, a.minutes, a.seconds)
                  => /\ dateTime'.year = DateOfMJD(a.mjd).year
                     /\ dateTime'.month = DateOfMJD(a.mjd).month
                     /\ dateTime'.day = DateOfMJD(a.mjd).day
                     /\ dateTime'.hour = a.hour
                     /\ dateTime'.minutes = a.minutes
             /\ emitted' = IF ensembleEcc \in Eccs
                           THEN <<DateTimeUpdate(dateTime')>>
                           ELSE <<>>
        ELSE sent = {}]_vars

\* a FIG0/10 has stored 29 February 2024, 23:59, no FIG0/9 has been handled,
\* and nothing was sent
C29_Witness ==
  /\ lastOp.op = "FIG0/10"
  /\ ensembleEcc \notin Eccs
  /\ ~timeOffsetReceived
  /\ dateTime.year = 2024 /\ dateTime.month = 2 /\ dateTime.day = 29
  /\ dateTime.hour = 23 /\ dateTime.minutes = 59
  /\ emitted = <<>>

\* C30: after a FIG0/10 the stored seconds are the 6 bits of the seconds if
\* the bit that says they are there is set; if it is not, 0 if the minute of
\* the FIG is not the stored minute, and the stored seconds otherwise.
C30_SecondsOfFIG010 ==
  [][LET a == lastOp'.arg
     IN (/\ lastOp'.op = "FIG0/10"
         /\ FIG0Extension10(a.mjd, a.utc, a.hour, a.minutes, a.seconds))
        => dateTime'.seconds = IF a.utc = 1 THEN a.seconds
                               ELSE IF a.minutes # dateTime.minutes THEN 0
                               ELSE dateTime.seconds]_vars

\* a FIG0/10 in the short form was handled and the stored seconds are the
\* ones of a FIG0/10 in the long form before it
C30_Witness ==
  /\ lastOp.op = "FIG0/10"
  /\ lastOp.arg.utc = 0
  /\ dateTime.minutes = lastOp.arg.minutes
  /\ dateTime.seconds \in Seconds

\* the stored calendar date
StoredDate(dt) == [year |-> dt.year, month |-> dt.month, day |-> dt.day]

\* C31, as stated: after a FIG0/10 with MJD 58849, hour 12 and minute 0 the
\* stored date and time are 2020-02-02 12:00.
C31_MJD58849IsSecondOfFebruary ==
  (/\ lastOp.op = "FIG0/10"
   /\ lastOp.arg.mjd = 58849 /\ lastOp.arg.hour = 12 /\ lastOp.arg.minutes = 0)
    => /\ StoredDate(dateTime) = [year |-> 2020, month |-> 2, day |-> 2]
       /\ dateTime.hour = 12 /\ dateTime.minutes = 0

\* C31, amended: after a FIG0/10 with MJD 58849, hour 12 and minute 0 the
\* stored date and time are 2020-01-01 12:00.
C31_MJD58849IsFirstOfJanuary ==
  (/\ lastOp.op = "FIG0/10"
   /\ lastOp.arg.mjd = 58849 /\ lastOp.arg.hour = 12 /\ lastOp.arg.minutes = 0)
    => /\ StoredDate(dateTime) = [year |-> 2020, month |-> 1, day |-> 1]
       /\ dateTime.hour = 12 /\ dateTime.minutes = 0

\* the FIG0/10 with MJD 58849, hour 12 and minute 0 has been handled
C31_Witness ==
  /\ lastOp.op = "FIG0/10"
  /\ lastOp.arg.mjd = 58849 /\ lastOp.arg.hour = 12 /\ lastOp.arg.minutes = 0
  /\ dateTime.year = 2020
  /\ dateTime.hour = 12

\* the proleptic Gregorian calendar: leap years, the days of a month, and
\* the day after a date
IsLeapYear(y) == (y % 4 = 0 /\ y % 100 # 0) \/ y % 400 = 0

DaysInMonth(y, m) ==
  IF m = 2 THEN (IF IsLeapYear(y) THEN 29 ELSE 28)
  ELSE IF m \in {4, 6, 9, 11} THEN 30 ELSE 31

DayAfter(date) ==
  IF date.day < DaysInMonth(date.year, date.month)
  THEN [date EXCEPT !.day = @ + 1]
  ELSE IF date.month < 12
  THEN [date EXCEPT !.month = @ + 1, !.day = 1]
  ELSE [year |-> date.year + 1, month |-> 1, day |-> 1]

\* C32: the date a FIG0/10 stores for a Modified Julian Date of 17 bits has
\* a month in 1..12 and a day in 1..days of that month, is 2000-01-01 for
\* 51544, and is the day after the date stored for the Modified Julian Date
\* before it; so it is the Gregorian date of the Julian day MJD + 2400001.
C32_DateOfEveryMJD ==
  [][lastOp'.op = "FIG0/10"
       => LET date == StoredDate(dateTime')
          IN /\ date.month \in 1..12
             /\ date.day \in 1..DaysInMonth(date.year, date.month)
             /\ lastOp'.arg.mjd = 51544 => date = [year |-> 2000, month |-> 1, day |-> 1]
             /\ (lastOp.op = "FIG0/10" /\ lastOp'.arg.mjd = lastOp.arg.mjd + 1)
                  => date = DayAfter(StoredDate(dateTime))]_vars

\* the day after 28 February 2100, which is no leap year, reached from the
\* day before
C32_Witness ==
  /\ lastOp.op = "FIG0/10"
  /\ lastOp.arg.mjd = 88128
  /\ StoredDate(dateTime) = [year |-> 2100, month |-> 3, day |-> 1]

\* C34: every onSetServiceLabel(SId, label) a call sends is for a service
\* that is in the service vector, for which onServiceDetected(SId) was sent
\* before; a FIG1/1 or FIG1/5 for a service id that is not in the service
\* vector changes no label, no service and no component and sends nothing.
C34_ServiceLabelOnlyForStoredService ==
  [][/\ \A i \in DOMAIN emitted' :
          emitted'[i].kind = "onSetServiceLabel"
            => /\ findServiceId(services', emitted'[i].SId)
               /\ hist'[emitted'[i].SId].detected
     /\ (/\ lastOp'.op = "FIG1"
         /\ lastOp'.arg.extension \in {1, 5}
         /\ ~ findServiceId(services, lastOp'.arg.id))
          => /\ services' = services
             /\ components' = components
             /\ ensembleLabel' = ensembleLabel
             /\ emitted' = <<>>]_vars

\* a FIG1/1 without the other-ensemble bit was handled for a service that was
\* detected and has been dropped since, and nothing was sent
C34_Witness ==
  /\ lastOp.op = "FIG1"
  /\ lastOp.arg.oe = 0
  /\ lastOp.arg.extension = 1
  /\ hist[lastOp.arg.id].detected
  /\ ~ findServiceId(services, lastOp.arg.id)
  /\ emitted = <<>>

\* C35: after a FIG0/2 entry for a service, each component the entry lists
\* (with a transport mode that is not reserved) is stored for the service
\* exactly if the service exists after the debounce step of that entry: the
\* first sighting of a service that is neither stored nor tracked stores none
\* of them, and the call that sends onServiceDetected stores all of them.
C35_ComponentsBoundAtConfirmation ==
  [][LET s == lastOp'.sid
         descs == lastOp'.descs
         listed == {k \in DOMAIN descs : descs[k].TMid # TMidReserved}
         exists == findServiceId(Debounce(Store, s, lastOp'.decay).services, s)
     IN (lastOp'.op = "FIG0/2" /\ FIG0Extension2(s, descs))
        => /\ \A k \in listed : hasComponent(components', s, k - 1) <=> exists
           /\ (~ Tracked(serviceRepeatCount, s) /\ ~ findServiceId(services, s))
                => \A k \in listed : ~ hasComponent(components', s, k - 1)
           /\ Detected(s) \in Range(emitted')
                => \A k \in listed : hasComponent(components', s, k - 1)]_vars

\* the call that sent onServiceDetected for a service has stored the packet
\* component and the audio component of its entry
C35_Witness ==
  /\ lastOp.op = "FIG0/2"
  /\ Detected(lastOp.sid) \in Range(emitted)
  /\ Len(lastOp.descs) = 2
  /\ \A k \in DOMAIN lastOp.descs : hasComponent(components, lastOp.sid, k - 1)

\* C36: in every state that FIG0/1, FIG0/5, FIG0/14, dropService and
\* clearEnsemble reach, the slot at index i of the sub channel table carries
\* the sentinel id -1 or the id i.
C36_SlotCarriesItsIndex ==
  \A i \in DOMAIN subChannels : subChannels[i].subChId \in {InvalidSubChId, i}

\* after a clearEnsemble one slot that a FIG0/1 wrote carries its index and
\* another one, which dropService marked, carries the sentinel
C36_Witness ==
  /\ lastOp.op = "clearEnsemble"
  /\ \E i, j \in DOMAIN subChannels :
       /\ subChannels[i].subChId = i
       /\ subChannels[j].subChId = InvalidSubChId
       /\ subChannels[j].startAddr \in StartAddrs

\* C38: for every component that getComponents returns for a service,
\* getSubchannel returns a slot of the table and does not throw, also for a
\* packet component of a FIG0/2 entry to which no FIG0/3 has given a sub
\* channel.
C38_GetSubchannelDoesNotFail ==
  \A s \in SIds :
    \A k \in DOMAIN getComponents(components, s) :
      LET got == getSubchannel(subChannels, getComponents(components, s)[k])
      IN /\ ~ got.threw
         /\ got.value \in Range(subChannels)

\* C33: a query of another thread copies the services and the components as
\* the last call of processFIB or clearEnsemble that has returned left them,
\* while no such call is under way, under every interleaving; every service
\* in what it returns has the component the FIG0/2 entry listed.
C33_QuerySeesWholeCalls ==
  [][(call.reader = "locked" /\ call'.reader = "copied")
       => /\ call.decoder \in {"idle", "blocked"}
          /\ call.owner = "reader"
          /\ call'.snapshot = call.whole
          /\ \A i \in DOMAIN call'.snapshot.services :
               call'.snapshot.components[call'.snapshot.services[i].serviceId] # <<>>]_vars

\* a query has returned a service with its component while the decoding
\* thread waits for the lock with the next FIB
C33_Witness ==
  /\ call.reader = "copied"
  /\ call.decoder = "idle"
  /\ call.snapshot.services # <<>>
  /\ \A i \in DOMAIN call.snapshot.services :
       call.snapshot.components[call.snapshot.services[i].serviceId] # <<>>

\* C37: when the observer calls getService of the processor from
\* onServiceDetected, the query returns a service to it and processFIB
\* returns.
C37_QueryFromObserverReturns ==
  (call.decoder = "query")
    ~> (call.decoder = "idle" /\ Len(call.answer) = 1 /\ ~ call.threw)

\* C39: once a callback of nrsc5 has returned the demux queue holds at most
\* MAX_PACKET_QUEUE packets; a callback whose packet takes the size above the
\* maximum leaves the queue with exactly one stream change packet and m_dts at
\* STREAM_TIME_BASE
C39_QueueBoundedAndFlushed ==
  [][/\ Len(call'.hd.queue) <= MAX_PACKET_QUEUE
     /\ (/\ lastOp'.op = "nrsc5_callback"
         /\ QueueEvent(call.hd, lastOp'.arg).queued
         /\ Len(call.hd.queue) + 1 > MAX_PACKET_QUEUE)
          => /\ call'.hd.queue = <<StreamChangePacket>>
             /\ call'.hd.dts = STREAM_TIME_BASE]_vars

\* the queue was full, a packet more was queued and the queue was flushed
C39_Witness ==
  /\ lastOp.op = "nrsc5_callback"
  /\ lastOp.arg.event = "NRSC5_EVENT_AUDIO"
  /\ call.hd.hdaudio
  /\ call.hd.queue = <<StreamChangePacket>>
  /\ call.hd.dts = STREAM_TIME_BASE

\* the handles that callers of acquire hold, thread by thread
HeldHandles ==
  LET t1 == call.pool.thread[1].holds
      t2 == call.pool.thread[2].holds
  IN  t1 \o t2

\* C40: a handle that acquire has returned and that has not been given to
\* release is in the idle queue not at all and with no other holder, whatever
\* the order of the calls of the threads; and an acquire that finds the idle
\* queue empty opens a connection and returns it
C40_HandleHasOneHolder ==
  [][/\ \A i, j \in DOMAIN HeldHandles' :
          i # j => HeldHandles'[i] # HeldHandles'[j]
     /\ \A i \in DOMAIN HeldHandles' :
          /\ HeldHandles'[i] # NullHandle
          /\ HeldHandles'[i] \notin Range(call'.pool.queue)
     /\ \A t \in PoolThreads :
          (/\ call.pool.thread[t].pc = "acquiring"
           /\ call.pool.queue = <<>>
           /\ ~ lastOp'.threw
           /\ call'.pool.thread[t].pc # "acquiring")
            => /\ call'.pool.thread[t].pc = "returning"
               /\ call'.pool.thread[t].handle \notin Range(call.pool.connections)
               /\ call'.pool.connections =
                    Append(call.pool.connections, call'.pool.thread[t].handle)]_vars

\* acquire has returned to both threads, and the handle it returned last is
\* a connection it opened on the empty queue
C40_Witness ==
  /\ lastOp.op = "acquire"
  /\ call.pool.queue = <<>>
  /\ call.pool.thread[1].holds # <<>>
  /\ call.pool.thread[2].holds # <<>>
  /\ Len(call.pool.connections) > Len(PooledAtStart(2))
  /\ Len(call.pool.connections) \in Range(HeldHandles)

==============================================================================
